---------------------------- MODULE Spec2Model ----------------------------
(***************************************************************************)
(* pota-stats: collector -> raw/ -> hourly/ -> daily/ -> monthly/ rollups  *)
(* with a manifest.json index, modelled from                               *)
(*   src/workers/pota-collector/src/index.ts                               *)
(*   src/workers/pota-aggregator/src/index.ts                              *)
(*                                                                         *)
(* Representation.                                                         *)
(*  - A JavaScript string is a sequence of one-character strings, so that  *)
(*    template literals are concatenations and String.split is computed.   *)
(*  - A Date is a record [mo, d, h] (the year is fixed, minutes are not    *)
(*    needed); a formatted path or timestamp is the tuple of its           *)
(*    zero-padded components.                                              *)
(*  - An object key is a record [tier, path, ext], with a field hash when  *)
(*    the name carries a content hash; manifest.json is [tier].            *)
(*  - An NDJSON body is the sequence of its lines, each line the record    *)
(*    that JSON.stringify wrote (JSON.parse gives it back).                *)
(*  - A Map or Set is a sequence in insertion order without repeats.       *)
(*  - Wall-clock values (generated_at, updated_at) are not part of the     *)
(*    modelled bodies; of updated_at only its presence is kept.            *)
(***************************************************************************)
EXTENDS Integers, Sequences, FiniteSets, TLC

VARIABLES
  store,      \* the R2 bucket: object key -> body
  captures,   \* collector ticks that wrote an object so far
  runs,       \* aggregation runs started so far
  faults,     \* store calls that failed so far
  run,        \* the aggregation run in progress, or the last one finished
  firstBody,  \* history: the body each key but manifest.json received at its first put
  upd,        \* direct updateManifest calls: level -> state of the call
  alg,        \* merge algebra: the parts being merged and the groups so far
  sched,      \* cron: the clock and the last scheduled invocation
  call        \* a function applied on its own: its input and, once returned, its output

vars == <<store, captures, runs, faults, run, firstBody, upd, alg, sched, call>>

---------------------------------------------------------------------------
(* Bounds of the model *)

NumMonths == 1      \* months of the modelled calendar
NumDays == 1        \* days per month
NumHours == 2       \* hours per day
MaxCaptures == 3    \* collector ticks in a behaviour
MaxRuns == 3        \* aggregation runs in a behaviour
MaxFaults == 1      \* failing store calls in a behaviour
HourlyCap == 1      \* maxEntries of the hourly list (720 in the source), scaled
DailyCap == 1       \* maxEntries of the daily list (90 in the source), scaled
MonthlyCap == 1     \* maxEntries of the monthly list (24 in the source), scaled
ManifestCap == 2    \* maxEntries passed by the calls of SpecManifest, every level
MaxParts == 3       \* parts of a partition in SpecAlgebra

---------------------------------------------------------------------------
(* Generic helpers *)

Range(s) == {s[i] : i \in 1..Len(s)}

\* Set.add / "push if absent" on an insertion-ordered set
SetAdd(s, x) == IF x \in Range(s) THEN s ELSE Append(s, x)

RECURSIVE SetAddAll(_, _)
SetAddAll(s, xs) == IF xs = <<>> THEN s ELSE SetAddAll(SetAdd(s, Head(xs)), Tail(xs))

RECURSIVE SumSeq(_)
SumSeq(s) == IF s = <<>> THEN 0 ELSE Head(s) + SumSeq(Tail(s))

\* new Set(array).size
DistinctCount(s) == Cardinality(Range(s))

RECURSIVE SplitAcc(_, _, _, _)
SplitAcc(s, sep, cur, acc) ==
  IF s = <<>> THEN Append(acc, cur)
  ELSE IF Head(s) = sep THEN SplitAcc(Tail(s), sep, <<>>, Append(acc, cur))
  ELSE SplitAcc(Tail(s), sep, Append(cur, Head(s)), acc)

\* String.prototype.split(sep) for a one-character separator
split(s, sep) == SplitAcc(s, sep, <<>>, <<>>)

\* String.prototype.localeCompare on fixed-width digit strings: -1, 0 or 1
RECURSIVE localeCompare(_, _)
localeCompare(a, b) ==
  IF a = <<>> /\ b = <<>> THEN 0
  ELSE IF a = <<>> THEN -1
  ELSE IF b = <<>> THEN 1
  ELSE IF Head(a) < Head(b) THEN -1
  ELSE IF Head(a) > Head(b) THEN 1
  ELSE localeCompare(Tail(a), Tail(b))

---------------------------------------------------------------------------
(* Calendar, paths and timestamps *)

Dates == [mo : 1..NumMonths, d : 1..NumDays, h : 0..(NumHours - 1)]

HourIndex(date) == ((date.mo - 1) * NumDays + (date.d - 1)) * NumHours + date.h

formatHourPath(date) == <<date.mo, date.d, date.h>>
formatDayPath(date) == <<date.mo, date.d>>
formatMonthPath(date) == <<date.mo>>
getHourTimestamp(date) == <<date.mo, date.d, date.h>>
getDayTimestamp(date) == <<date.mo, date.d>>
getMonthTimestamp(date) == <<date.mo>>

Levels == {"hourly", "daily", "monthly"}

ManifestKey == [tier |-> "manifest"]
\* `raw/${datePath}/spots-${timestamp}.ndjson`; the timestamp is the number of the
\* capture within its hour (capture times only grow)
RawKey(hourPath, n) == [tier |-> "raw", path |-> Append(hourPath, n), ext |-> "ndjson"]
\* `${level}/${path}.ndjson` and `${level}/${path}.meta.json`
RollupKey(level, path) == [tier |-> level, path |-> path, ext |-> "ndjson"]
MetaKey(level, path) == [tier |-> level, path |-> path, ext |-> "meta.json"]

\* SHA-256 prefix of the body. The digest is taken to be collision-free on the
\* bodies of the model, and is represented by the content it digests.
computeContentHash(content) == content

\* inserts `-${hash}` before the last dot of the key
\* addHashToFilename with the hash left out of the key
addHashToFilenameFixed(key, hash) ==
  [tier |-> key.tier, path |-> key.path, hash |-> <<>>, ext |-> key.ext]

addHashToFilename(key, hash) ==
  [tier |-> key.tier, path |-> key.path, hash |-> hash, ext |-> key.ext]

\* key.startsWith(`${tier}/${path}/`)
IsPrefix(p, q) == Len(p) <= Len(q) /\ SubSeq(q, 1, Len(p)) = p
UnderPrefix(key, tier, path) ==
  /\ key.tier = tier
  /\ "path" \in DOMAIN key
  /\ Len(key.path) > Len(path)
  /\ IsPrefix(path, key.path)


---------------------------------------------------------------------------
(* Collector: normalisation of upstream spots *)

Str(c) == <<c>>

B160 == <<"1", "6", "0", "m">>
B80 == <<"8", "0", "m">>
B60 == <<"6", "0", "m">>
B40 == <<"4", "0", "m">>
B30 == <<"3", "0", "m">>
B20 == <<"2", "0", "m">>
B17 == <<"1", "7", "m">>
B15 == <<"1", "5", "m">>
B12 == <<"1", "2", "m">>
B10 == <<"1", "0", "m">>
B6 == <<"6", "m">>
B2 == <<"2", "m">>
B70cm == <<"7", "0", "c", "m">>
BOther == <<"o", "t", "h", "e", "r">>

\* freqToBand with the upper limit of every range left out
freqToBandHalfOpen(freqKhz) ==
  IF freqKhz >= 1800 /\ freqKhz < 2000 THEN B160
  ELSE IF freqKhz >= 3500 /\ freqKhz < 4000 THEN B80
  ELSE IF freqKhz >= 5300 /\ freqKhz < 5400 THEN B60
  ELSE IF freqKhz >= 7000 /\ freqKhz < 7300 THEN B40
  ELSE IF freqKhz >= 10100 /\ freqKhz < 10150 THEN B30
  ELSE IF freqKhz >= 14000 /\ freqKhz < 14350 THEN B20
  ELSE IF freqKhz >= 18068 /\ freqKhz < 18168 THEN B17
  ELSE IF freqKhz >= 21000 /\ freqKhz < 21450 THEN B15
  ELSE IF freqKhz >= 24890 /\ freqKhz < 24990 THEN B12
  ELSE IF freqKhz >= 28000 /\ freqKhz < 29700 THEN B10
  ELSE IF freqKhz >= 50000 /\ freqKhz < 54000 THEN B6
  ELSE IF freqKhz >= 144000 /\ freqKhz < 148000 THEN B2
  ELSE IF freqKhz >= 420000 /\ freqKhz < 450000 THEN B70cm
  ELSE BOther

\* freqKhz / 1000 compared with the MHz limits, on whole kHz
freqToBand(freqKhz) ==
  IF freqKhz >= 1800 /\ freqKhz <= 2000 THEN B160
  ELSE IF freqKhz >= 3500 /\ freqKhz <= 4000 THEN B80
  ELSE IF freqKhz >= 5300 /\ freqKhz <= 5400 THEN B60
  ELSE IF freqKhz >= 7000 /\ freqKhz <= 7300 THEN B40
  ELSE IF freqKhz >= 10100 /\ freqKhz <= 10150 THEN B30
  ELSE IF freqKhz >= 14000 /\ freqKhz <= 14350 THEN B20
  ELSE IF freqKhz >= 18068 /\ freqKhz <= 18168 THEN B17
  ELSE IF freqKhz >= 21000 /\ freqKhz <= 21450 THEN B15
  ELSE IF freqKhz >= 24890 /\ freqKhz <= 24990 THEN B12
  ELSE IF freqKhz >= 28000 /\ freqKhz <= 29700 THEN B10
  ELSE IF freqKhz >= 50000 /\ freqKhz <= 54000 THEN B6
  ELSE IF freqKhz >= 144000 /\ freqKhz <= 148000 THEN B2
  ELSE IF freqKhz >= 420000 /\ freqKhz <= 450000 THEN B70cm
  ELSE BOther

\* reference.split('-')[0] ?? 'unknown': split never gives an empty array, so
\* the first part is returned even when it is the empty string
extractEntity(reference) == split(reference, "-")[1]

toUpperCase(s) ==
  [i \in 1..Len(s) |->
     CASE s[i] = "c" -> "C" [] s[i] = "w" -> "W" [] OTHER -> s[i]]

\* parseFloat(spot.frequency) || 0; an unparseable frequency string is [ok |-> FALSE]
parseFrequency(f) == IF f.ok THEN f.khz ELSE 0

\* coord2state lookup (external table), by the location class of the coordinates
getState(loc) == IF loc = "MA" THEN <<"M", "A">> ELSE <<>>

\* a state of <<>> stands for null ('' is never produced by getState)
normalizeSpot(spot) ==
  [spotId |-> spot.spotId,
   activator |-> spot.activator,
   reference |-> spot.reference,
   mode |-> toUpperCase(spot.mode),
   band |-> freqToBand(parseFrequency(spot.frequency)),
   entity |-> extractEntity(spot.reference),
   state |-> getState(spot.loc)]

normalizeSpots(spots) == [i \in 1..Len(spots) |-> normalizeSpot(spots[i])]

Khz(n) == [ok |-> TRUE, khz |-> n]

\* Upstream spots of the model: two ordinary ones, a re-spot of id 1 on another
\* band, a reference whose prefix contains '|', and a spot with an empty mode.
U1 == [spotId |-> 1, activator |-> Str("W"), frequency |-> Khz(7137),
       mode |-> <<"c", "w">>, reference |-> <<"K", "-", "1">>, loc |-> "MA"]
U2 == [spotId |-> 2, activator |-> Str("X"), frequency |-> Khz(7200),
       mode |-> <<"C", "W">>, reference |-> <<"K", "-", "2">>, loc |-> "none"]
U1b == [spotId |-> 1, activator |-> Str("W"), frequency |-> Khz(14000),
        mode |-> <<"C", "W">>, reference |-> <<"K", "-", "1">>, loc |-> "MA"]
U3 == [spotId |-> 3, activator |-> Str("W"), frequency |-> Khz(7137),
       mode |-> <<"C", "W">>, reference |-> <<"K", "|", "X", "-", "1">>, loc |-> "none"]
U4 == [spotId |-> 4, activator |-> Str("X"), frequency |-> [ok |-> FALSE],
       mode |-> <<>>, reference |-> <<"K", "-", "2">>, loc |-> "none"]

U5 == [spotId |-> 5, activator |-> Str("W"), frequency |-> Khz(7137),
       mode |-> <<"C", "W">>, reference |-> <<"K", "-", "1">>, loc |-> "MA"]

\* Upstream responses a collector tick can receive
Snapshots == {<<U3, U1>>, <<U4, U1b, U2, U4>>}

---------------------------------------------------------------------------
(* Aggregator: grouping and merging *)

Bar == <<"|">>

\* `${mode}|${band}|${entity}`
GroupKey(x) == x.mode \o Bar \o x.band \o Bar \o x.entity

\* Map.get: position of the key in the insertion-ordered map, 0 when absent
IndexOfKey(groups, key) ==
  IF \E i \in 1..Len(groups) : groups[i].key = key
  THEN CHOOSE i \in 1..Len(groups) : groups[i].key = key
  ELSE 0

\* one step of the reduce in aggregateSpotsToHourly
AddSpotToGroups(acc, spot) ==
  LET key == GroupKey(spot)
      i == IndexOfKey(acc, key)
      existing == IF i = 0
                  THEN [key |-> key, spots |-> <<>>, activators |-> <<>>, parks |-> <<>>,
                        activations |-> <<>>, stateActivators |-> <<>>]
                  ELSE acc[i]
      group == [existing EXCEPT
                  !.spots = Append(@, spot),
                  !.activators = SetAdd(@, spot.activator),
                  !.parks = SetAdd(@, spot.reference),
                  !.activations = SetAdd(@, spot.activator \o Bar \o spot.reference),
                  !.stateActivators = IF spot.state # <<>>
                                      THEN SetAdd(@, spot.state \o Bar \o spot.activator)
                                      ELSE @]
  IN IF i = 0 THEN Append(acc, group) ELSE [acc EXCEPT ![i] = group]

RECURSIVE SpotGroups(_, _)
SpotGroups(spots, acc) ==
  IF spots = <<>> THEN acc ELSE SpotGroups(Tail(spots), AddSpotToGroups(acc, Head(spots)))

\* const [mode, band, entity] = key.split('|'), then the filter on empty parts
KeyParts(key) == split(key, "|")
KeptKey(key) ==
  LET parts == KeyParts(key)
  IN parts[1] # <<>> /\ parts[2] # <<>> /\ parts[3] # <<>>

RECURSIVE FilterKept(_)
FilterKept(groups) ==
  IF groups = <<>> THEN <<>>
  ELSE IF KeptKey(Head(groups).key) THEN <<Head(groups)>> \o FilterKept(Tail(groups))
  ELSE FilterKept(Tail(groups))

SpotRow(group, hour) ==
  LET parts == KeyParts(group.key)
  IN [tkey |-> "hour", tval |-> hour,
      mode |-> parts[1], band |-> parts[2], entity |-> parts[3],
      spot_count |-> Len(group.spots),
      activation_count |-> Len(group.activations),
      unique_activators |-> Len(group.activators),
      unique_parks |-> Len(group.parks),
      activators |-> group.activators,
      parks |-> group.parks,
      activations |-> group.activations,
      state_activators |-> group.stateActivators]

aggregateSpotsToHourly(spots, hour) ==
  LET kept == FilterKept(SpotGroups(spots, <<>>))
  IN [i \in 1..Len(kept) |-> SpotRow(kept[i], hour)]

\* MergeAggregate with the child arrays concatenated instead of added to sets
MergeAggregateConcat(groups, agg) ==
  LET key == GroupKey(agg)
      i == IndexOfKey(groups, key)
      existing == IF i = 0
                  THEN [key |-> key, spotCount |-> 0, activators |-> <<>>, parks |-> <<>>,
                        activations |-> <<>>, stateActivators |-> <<>>]
                  ELSE groups[i]
      group == [existing EXCEPT
                  !.spotCount = @ + agg.spot_count,
                  !.activators = @ \o agg.activators,
                  !.parks = @ \o agg.parks,
                  !.activations = @ \o agg.activations,
                  !.stateActivators = @ \o agg.state_activators]
  IN IF i = 0 THEN Append(groups, group) ELSE [groups EXCEPT ![i] = group]

\* MergeAggregate with the child's spot_count assigned instead of added
MergeAggregateAssign(groups, agg) ==
  LET key == GroupKey(agg)
      i == IndexOfKey(groups, key)
      existing == IF i = 0
                  THEN [key |-> key, spotCount |-> 0, activators |-> <<>>, parks |-> <<>>,
                        activations |-> <<>>, stateActivators |-> <<>>]
                  ELSE groups[i]
      group == [existing EXCEPT
                  !.spotCount = agg.spot_count,
                  !.activators = SetAddAll(@, agg.activators),
                  !.parks = SetAddAll(@, agg.parks),
                  !.activations = SetAddAll(@, agg.activations),
                  !.stateActivators = SetAddAll(@, agg.state_activators)]
  IN IF i = 0 THEN Append(groups, group) ELSE [groups EXCEPT ![i] = group]

\* one step of the forEach in mergeAggregatesIntoGroups
MergeAggregate(groups, agg) ==
  LET key == GroupKey(agg)
      i == IndexOfKey(groups, key)
      existing == IF i = 0
                  THEN [key |-> key, spotCount |-> 0, activators |-> <<>>, parks |-> <<>>,
                        activations |-> <<>>, stateActivators |-> <<>>]
                  ELSE groups[i]
      group == [existing EXCEPT
                  !.spotCount = @ + agg.spot_count,
                  !.activators = SetAddAll(@, agg.activators),
                  !.parks = SetAddAll(@, agg.parks),
                  !.activations = SetAddAll(@, agg.activations),
                  !.stateActivators = SetAddAll(@, agg.state_activators)]
  IN IF i = 0 THEN Append(groups, group) ELSE [groups EXCEPT ![i] = group]

RECURSIVE mergeAggregatesIntoGroups(_, _)
mergeAggregatesIntoGroups(aggregates, groups) ==
  IF aggregates = <<>> THEN groups
  ELSE mergeAggregatesIntoGroups(Tail(aggregates), MergeAggregate(groups, Head(aggregates)))

GroupRow(group, timestampKey, timestampValue) ==
  LET parts == KeyParts(group.key)
  IN [tkey |-> timestampKey, tval |-> timestampValue,
      mode |-> parts[1], band |-> parts[2], entity |-> parts[3],
      spot_count |-> group.spotCount,
      activation_count |-> Len(group.activations),
      unique_activators |-> Len(group.activators),
      unique_parks |-> Len(group.parks),
      activators |-> group.activators,
      parks |-> group.parks,
      activations |-> group.activations,
      state_activators |-> group.stateActivators]

groupsToAggregates(groups, timestampKey, timestampValue) ==
  LET kept == FilterKept(groups)
  IN [i \in 1..Len(kept) |-> GroupRow(kept[i], timestampKey, timestampValue)]

---------------------------------------------------------------------------
(* Manifest *)

EmptyManifest == [hourly |-> <<>>, daily |-> <<>>, monthly |-> <<>>]

Entry(field, timeValue, path, totalSpots, totalActivations) ==
  [tf |-> field, t |-> timeValue, path |-> path,
   total_spots |-> totalSpots, total_activations |-> totalActivations]

\* NormalizeEntries with the entries taken as they were parsed
NormalizeEntriesAsParsed(entries, field) == entries

\* e[field] ?? e.timestamp ?? ''
NormalizeEntries(entries, field) ==
  [i \in 1..Len(entries) |->
     Entry(field,
           IF entries[i].tf = field \/ entries[i].tf = "timestamp" THEN entries[i].t ELSE <<>>,
           entries[i].path, entries[i].total_spots, entries[i].total_activations)]

normalizeHourlyEntries(entries) == NormalizeEntries(entries, "hour")
normalizeDailyEntries(entries) == NormalizeEntries(entries, "day")
normalizeMonthlyEntries(entries) == NormalizeEntries(entries, "month")

\* JSON.stringify(manifest): the object written to manifest.json
StoredManifest(manifest) ==
  [kind |-> "json", hasUpdatedAt |-> TRUE, hasHours |-> FALSE, hours |-> <<>>,
   hasHourly |-> TRUE, hourly |-> manifest.hourly,
   hasDaily |-> TRUE, daily |-> manifest.daily,
   hasMonthly |-> TRUE, monthly |-> manifest.monthly]

\* the load half of updateManifest, given the body of manifest.json
ParseManifest(body) ==
  IF body.kind # "json" THEN EmptyManifest
  ELSE IF body.hasHours /\ ~body.hasHourly
    THEN [EmptyManifest EXCEPT !.hourly = normalizeHourlyEntries(body.hours)]
  ELSE [hourly |-> IF body.hasHourly THEN normalizeHourlyEntries(body.hourly) ELSE <<>>,
        daily |-> IF body.hasDaily THEN normalizeDailyEntries(body.daily) ELSE <<>>,
        monthly |-> IF body.hasMonthly THEN normalizeMonthlyEntries(body.monthly) ELSE <<>>]

\* r2.get('manifest.json') followed by the parse
LoadManifest(st) ==
  IF ManifestKey \in DOMAIN st THEN ParseManifest(st[ManifestKey]) ELSE EmptyManifest

\* entries.findIndex((e) => e[field] === timeValue), 0 for -1
findIndex(entries, timeValue) ==
  IF \E i \in 1..Len(entries) : entries[i].t = timeValue
  THEN CHOOSE i \in 1..Len(entries) :
         /\ entries[i].t = timeValue
         /\ \A j \in 1..(i - 1) : entries[j].t # timeValue
  ELSE 0

RECURSIVE InsertDesc(_, _)
InsertDesc(sorted, e) ==
  IF sorted = <<>> THEN <<e>>
  ELSE IF localeCompare(Head(sorted).t, e.t) >= 0
    THEN <<Head(sorted)>> \o InsertDesc(Tail(sorted), e)
  ELSE <<e>> \o sorted

RECURSIVE SortInto(_, _)
SortInto(entries, acc) ==
  IF entries = <<>> THEN acc ELSE SortInto(Tail(entries), InsertDesc(acc, Head(entries)))

\* entries.sort((a, b) => b[field].localeCompare(a[field])), a stable sort
sortDescending(entries) == SortInto(entries, <<>>)

\* a slice that keeps the last maxEntries entries
sliceLast(entries, maxEntries) ==
  SubSeq(entries, IF Len(entries) < maxEntries THEN 1 ELSE Len(entries) - maxEntries + 1,
         Len(entries))

\* entries.slice(0, maxEntries)
slice(entries, maxEntries) ==
  SubSeq(entries, 1, IF Len(entries) < maxEntries THEN Len(entries) ELSE maxEntries)

\* UpdateEntries with the entry always pushed (no lookup of an existing one)
UpdateEntriesAlwaysPush(entries, newEntry, maxEntries) ==
  slice(sortDescending(Append(entries, newEntry)), maxEntries)

\* replace-or-push, sort, slice on one level's list
UpdateEntries(entries, newEntry, maxEntries) ==
  LET existingIndex == findIndex(entries, newEntry.t)
      placed == IF existingIndex > 0
                THEN [entries EXCEPT ![existingIndex] = newEntry]
                ELSE Append(entries, newEntry)
  IN slice(sortDescending(placed), maxEntries)

\* the modify half of updateManifest
ApplyUpdate(manifest, level, timeValue, path, totalSpots, totalActivations, maxEntries) ==
  IF level = "hourly"
    THEN [manifest EXCEPT !.hourly =
            UpdateEntries(@, Entry("hour", timeValue, path, totalSpots, totalActivations),
                          maxEntries)]
  ELSE IF level = "daily"
    THEN [manifest EXCEPT !.daily =
            UpdateEntries(@, Entry("day", timeValue, path, totalSpots, totalActivations),
                          maxEntries)]
  ELSE IF level = "monthly"
    THEN [manifest EXCEPT !.monthly =
            UpdateEntries(@, Entry("month", timeValue, path, totalSpots, totalActivations),
                          maxEntries)]
  ELSE manifest

\* the maxEntries each aggregation passes
MaxEntries(level) ==
  IF level = "hourly" THEN HourlyCap ELSE IF level = "daily" THEN DailyCap ELSE MonthlyCap

---------------------------------------------------------------------------
(* Object store *)

Put(st, key, body) ==
  [k \in (DOMAIN st) \cup {key} |-> IF k = key THEN body ELSE st[k]]

\* lexicographic order of the listing: by path, a hashed name before the sidecar
\* of the same bucket ('-' sorts before '.'); the order among the hashes of one
\* bucket is some fixed order
KeyBefore(a, b) ==
  \/ localeCompare(a.path, b.path) < 0
  \/ a.path = b.path /\ "hash" \in DOMAIN a /\ "hash" \notin DOMAIN b

RECURSIVE SortKeys(_)
SortKeys(keys) ==
  IF keys = {} THEN <<>>
  ELSE LET k == CHOOSE x \in keys : \A y \in keys : ~KeyBefore(y, x)
       IN <<k>> \o SortKeys(keys \ {k})

\* r2.list({ prefix: `${tier}/${path}/` }).objects.map((obj) => obj.key)
ListPrefix(st, tier, path) ==
  SortKeys({k \in DOMAIN st : k # ManifestKey /\ UnderPrefix(k, tier, path)})

RECURSIVE FilterNdjson(_)
FilterNdjson(keys) ==
  IF keys = <<>> THEN <<>>
  ELSE IF Head(keys).ext = "ndjson" THEN <<Head(keys)>> \o FilterNdjson(Tail(keys))
  ELSE FilterNdjson(Tail(keys))

listRawFiles(st, hourPath) == ListPrefix(st, "raw", hourPath)
listHourlyFiles(st, dayPath) == FilterNdjson(ListPrefix(st, "hourly", dayPath))
listDailyFiles(st, monthPath) == FilterNdjson(ListPrefix(st, "daily", monthPath))

---------------------------------------------------------------------------
(* Aggregation jobs: what a run computes from the objects it read *)

\* ReadOk with the batch given up at the first read that fails
ReadOkStops(st, fileKeys, failed) ==
  LET bad == {i \in 1..Len(fileKeys) : fileKeys[i] \in failed}
      n == IF bad = {} THEN Len(fileKeys)
           ELSE (CHOOSE i \in bad : \A j \in bad : i <= j) - 1
  IN [i \in 1..n |-> st[fileKeys[i]]]

\* the bodies of the listed keys whose read succeeded, in listing order
RECURSIVE ReadOk(_, _, _)
ReadOk(st, fileKeys, failed) ==
  IF fileKeys = <<>> THEN <<>>
  ELSE IF Head(fileKeys) \in failed THEN ReadOk(st, Tail(fileKeys), failed)
  ELSE <<st[Head(fileKeys)]>> \o ReadOk(st, Tail(fileKeys), failed)

RECURSIVE Flatten(_)
Flatten(bodies) == IF bodies = <<>> THEN <<>> ELSE Head(bodies) \o Flatten(Tail(bodies))

\* acc.set(spot.spotId, spot): a Map keeps the position of the first insertion
\* and the value of the last
MapSet(acc, spot) ==
  IF \E i \in 1..Len(acc) : acc[i].spotId = spot.spotId
  THEN LET i == CHOOSE j \in 1..Len(acc) : acc[j].spotId = spot.spotId
       IN [acc EXCEPT ![i] = spot]
  ELSE Append(acc, spot)

RECURSIVE DedupSpots(_, _)
DedupSpots(spots, acc) ==
  IF spots = <<>> THEN acc ELSE DedupSpots(Tail(spots), MapSet(acc, Head(spots)))

\* Array.from(allSpots.values())
UniqueSpots(bodies) == DedupSpots(Flatten(bodies), <<>>)

Summary(timestamp, totalSpots, activations, activators, parks, filesProcessed, aggregates) ==
  [tval |-> timestamp,
   total_spots |-> totalSpots,
   total_activations |-> activations,
   total_unique_activators |-> activators,
   total_unique_parks |-> parks,
   files_processed |-> filesProcessed,
   aggregates |-> aggregates]

EmptySummary(timestamp) == Summary(timestamp, 0, 0, 0, 0, 0, <<>>)

\* aggregateHour, from the reads to the summary
HourSummary(date, fileKeys, bodies) ==
  LET uniqueSpots == UniqueSpots(bodies)
      aggregates == aggregateSpotsToHourly(uniqueSpots, getHourTimestamp(date))
  IN Summary(getHourTimestamp(date),
             Len(uniqueSpots),
             Cardinality({uniqueSpots[i].activator \o Bar \o uniqueSpots[i].reference :
                            i \in 1..Len(uniqueSpots)}),
             Cardinality({uniqueSpots[i].activator : i \in 1..Len(uniqueSpots)}),
             Cardinality({uniqueSpots[i].reference : i \in 1..Len(uniqueSpots)}),
             Len(fileKeys),
             aggregates)

RECURSIVE MergeFiles(_, _)
MergeFiles(bodies, groups) ==
  IF bodies = <<>> THEN groups
  ELSE MergeFiles(Tail(bodies), mergeAggregatesIntoGroups(Head(bodies), groups))

\* aggregateDay and aggregateMonth, from the reads to the summary
MergeSummary(timestampKey, timestamp, fileKeys, bodies) ==
  LET groups == MergeFiles(bodies, <<>>)
      rows == Flatten(bodies)
      totalSpots == SumSeq([i \in 1..Len(rows) |-> rows[i].spot_count])
      aggregates == groupsToAggregates(groups, timestampKey, timestamp)
  IN Summary(timestamp,
             totalSpots,
             Cardinality(UNION {Range(groups[i].activations) : i \in 1..Len(groups)}),
             Cardinality(UNION {Range(groups[i].activators) : i \in 1..Len(groups)}),
             Cardinality(UNION {Range(groups[i].parks) : i \in 1..Len(groups)}),
             Len(fileKeys),
             aggregates)

Timestamp(level, date) ==
  IF level = "hourly" THEN getHourTimestamp(date)
  ELSE IF level = "daily" THEN getDayTimestamp(date)
  ELSE getMonthTimestamp(date)

OutPath(level, date) ==
  IF level = "hourly" THEN formatHourPath(date)
  ELSE IF level = "daily" THEN formatDayPath(date)
  ELSE formatMonthPath(date)

\* the listing each job starts with
ListInputs(st, level, date) ==
  IF level = "hourly" THEN listRawFiles(st, formatHourPath(date))
  ELSE IF level = "daily" THEN listHourlyFiles(st, formatDayPath(date))
  ELSE listDailyFiles(st, formatMonthPath(date))

ComputeSummary(level, date, fileKeys, bodies) ==
  IF level = "hourly" THEN HourSummary(date, fileKeys, bodies)
  ELSE IF level = "daily" THEN MergeSummary("date", getDayTimestamp(date), fileKeys, bodies)
  ELSE MergeSummary("month", getMonthTimestamp(date), fileKeys, bodies)

\* the sidecar written by storeMeta
MetaBody(summary) ==
  [tval |-> summary.tval,
   total_spots |-> summary.total_spots,
   total_activations |-> summary.total_activations,
   total_unique_activators |-> summary.total_unique_activators,
   total_unique_parks |-> summary.total_unique_parks,
   files_processed |-> summary.files_processed,
   aggregate_count |-> Len(summary.aggregates)]

\* HashedKey with the hash taken over the rows and the number of the run (as it
\* would be over a body that carries the time of generation)
HashedKeyOfRun(level, date, aggregates) ==
  addHashToFilename(RollupKey(level, OutPath(level, date)),
                    computeContentHash(<<aggregates, runs>>))

\* storeAggregate: the key the rows are put at
HashedKey(level, date, aggregates) ==
  addHashToFilename(RollupKey(level, OutPath(level, date)), computeContentHash(aggregates))

---------------------------------------------------------------------------
(* The pipeline: collector ticks and aggregation runs, one store call a step *)

NoKey == [tier |-> "none"]
NoRun == [pc |-> "idle", last |-> <<>>, result |-> "none", errs |-> {}, puts |-> <<>>,
          unlinked |-> {}]
IdleCalls == [l \in Levels |-> [pc |-> "idle"]]
NoAlg == [pc |-> "idle"]
NoSched == [pc |-> "off"]
NoCall == [pc |-> "none"]

Init ==
  /\ store = <<>>
  /\ captures = 0
  /\ runs = 0
  /\ faults = 0
  /\ run = NoRun
  /\ firstBody = <<>>
  /\ upd = IdleCalls
  /\ sched = NoSched
  /\ call = NoCall
  /\ alg = NoAlg

Finished == run.pc \in {"idle", "done"}

\* r2.put on the model's store, remembering the first body of every key other
\* than manifest.json
PutObject(key, body) ==
  /\ store' = Put(store, key, body)
  /\ firstBody' = IF key = ManifestKey \/ key \in DOMAIN firstBody
                  THEN firstBody
                  ELSE Put(firstBody, key, body)

\* collectSpots: fetch, normalise, put one raw object for the current hour
\* `date` is the time of the tick: the clock only moves forward, so no capture of
\* a later hour exists yet. A tick touches no object that a run looks at after
\* its reads, so ticks are taken between runs.
Collect(date, snapshot) ==
  /\ Finished
  /\ captures < MaxCaptures
  /\ \A d \in Dates : HourIndex(d) > HourIndex(date) => listRawFiles(store, formatHourPath(d)) = <<>>
  /\ LET hourPath == formatHourPath(date)
         n == Len(listRawFiles(store, hourPath)) + 1
     IN PutObject(RawKey(hourPath, n), normalizeSpots(snapshot))
  /\ captures' = captures + 1
  /\ UNCHANGED <<runs, faults, run, upd, alg, sched, call>>

\* the paths of the manifest entries of one bucket
EntryPaths(st, level, timestamp) ==
  LET entries == LoadManifest(st)[level]
  IN [i \in {j \in 1..Len(entries) : entries[j].t = timestamp} |-> entries[i].path]

\* one representative Date per bucket of a level
Targets(level) ==
  IF level = "hourly" THEN Dates
  ELSE IF level = "daily" THEN {date \in Dates : date.h = 0}
  ELSE {date \in Dates : date.h = 0 /\ date.d = 1}

\* n more store calls fail
Fail(n) == faults + n <= MaxFaults /\ faults' = faults + n

StartRun(level, date) ==
  /\ Finished
  /\ runs < MaxRuns
  /\ runs' = runs + 1

\* A run that met no failure at any store call
Clean(r) == r.pc = "done" /\ r.result = "ok" /\ ~r.faults /\ r.storedPath # NoKey

\* History carried by a run: the key written by the run just before it when that
\* run was a clean run of the same bucket (prevKey), whether that run had listed
\* the same inputs (prevSame), whether the rows of this run differ from the rows
\* that run stored (prevDiffers), and the bucket's manifest entries at the start;
\* the key written by the latest run of each bucket that stored rows (last), that key for the
\* bucket of this run (lastKey) and whether the rows of this run differ from the
\* rows stored there (lastDiffers). The keys the run has put so far (puts), the
\* store calls of the run that failed (errs), the body of manifest.json at
\* the start (manifestBefore), and the buckets of which an earlier run wrote the
\* rollup and then failed to update the manifest (unlinked).
RunRecord(pc, level, date, fileKeys, failed, summary, result) ==
  LET again == Clean(run) /\ run.level = level /\ run.target = date
      last == IF run.pc = "done" /\ run.storedPath # NoKey
              THEN Put(run.last, <<run.level, run.target>>, run.storedPath)
              ELSE run.last
      lastKey == IF <<level, date>> \in DOMAIN last THEN last[<<level, date>>] ELSE NoKey
  IN [pc |-> pc, level |-> level, target |-> date, fileKeys |-> fileKeys, failed |-> failed,
      summary |-> summary, storedPath |-> NoKey, existed |-> FALSE,
      manifest |-> EmptyManifest, result |-> result, faults |-> failed # {},
      prevKey |-> IF again THEN run.storedPath ELSE NoKey,
      prevSame |-> again /\ run.fileKeys = fileKeys,
      prevDiffers |-> again /\ run.summary.aggregates # summary.aggregates,
      last |-> last, lastKey |-> lastKey,
      unlinked |-> IF run.pc = "done" /\ "manifest" \in run.errs
                   THEN run.unlinked \cup {<<run.level, run.target>>}
                   ELSE run.unlinked,
      puts |-> <<>>,
      errs |-> IF failed # {} THEN {"read"} ELSE {},
      manifestBefore |-> IF ManifestKey \in DOMAIN store THEN store[ManifestKey]
                         ELSE [kind |-> "absent"],
      lastDiffers |-> lastKey # NoKey /\ store[lastKey] # summary.aggregates,
      entryBefore |-> EntryPaths(store, level, Timestamp(level, date))]

\* the listing throws: LIST_ERROR
AggregateListError(level, date) ==
  /\ StartRun(level, date)
  /\ Fail(1)
  /\ run' = [RunRecord("done", level, date, <<>>, {}, EmptySummary(Timestamp(level, date)),
                       "LIST_ERROR") EXCEPT !.faults = TRUE, !.errs = {"list"}]
  /\ UNCHANGED <<store, captures, firstBody, upd, alg, sched, call>>

\* a variant that goes on to publish the empty rollup
AggregateEmptyPublishes(level, date) ==
  /\ StartRun(level, date)
  /\ ListInputs(store, level, date) = <<>>
  /\ run' = RunRecord("store", level, date, <<>>, {}, EmptySummary(Timestamp(level, date)),
                      "none")
  /\ UNCHANGED <<store, captures, faults, firstBody, upd, alg, sched, call>>

\* fileKeys.length === 0: an empty summary, nothing written
AggregateEmpty(level, date) ==
  /\ StartRun(level, date)
  /\ ListInputs(store, level, date) = <<>>
  /\ run' = RunRecord("done", level, date, <<>>, {}, EmptySummary(Timestamp(level, date)),
                      "ok")
  /\ UNCHANGED <<store, captures, faults, firstBody, upd, alg, sched, call>>

\* the reads (those in `failed` end in READ_ERROR and are skipped) and the merge
AggregateRead(level, date, failed) ==
  /\ StartRun(level, date)
  /\ LET fileKeys == ListInputs(store, level, date)
     IN /\ fileKeys # <<>>
        /\ failed \subseteq Range(fileKeys)
        /\ Fail(Cardinality(failed))
        /\ run' = RunRecord("store", level, date, fileKeys, failed,
                            ComputeSummary(level, date, fileKeys,
                                           ReadOk(store, fileKeys, failed)),
                            "none")
  /\ UNCHANGED <<store, captures, firstBody, upd, alg, sched, call>>

\* storeAggregate: put of the hashed rollup object
StoreAggregateOk ==
  /\ run.pc = "store"
  /\ LET hashedKey == HashedKey(run.level, run.target, run.summary.aggregates)
     IN /\ PutObject(hashedKey, run.summary.aggregates)
        /\ run' = [run EXCEPT !.pc = "meta", !.storedPath = hashedKey,
                              !.existed = hashedKey \in DOMAIN store,
                              !.puts = Append(@, hashedKey)]
  /\ UNCHANGED <<captures, runs, faults, upd, alg, sched, call>>

\* StoreAggregateErr with the failure of the put not looked at (as for storeMeta)
StoreAggregateErrIgnored ==
  /\ Fail(1)
  /\ run.pc = "store"
  /\ run' = [run EXCEPT !.pc = "meta", !.faults = TRUE,
                        !.storedPath = HashedKey(run.level, run.target,
                                                 run.summary.aggregates)]
  /\ UNCHANGED <<store, captures, runs, firstBody, upd, alg, sched, call>>

\* StoreAggregateErr with the job going on to the sidecar after the error
StoreAggregateErrGoesOn ==
  /\ Fail(1)
  /\ run.pc = "store"
  /\ run' = [run EXCEPT !.pc = "meta", !.result = "STORAGE_ERROR", !.faults = TRUE,
                        !.errs = @ \cup {"store"}]
  /\ UNCHANGED <<store, captures, runs, firstBody, upd, alg, sched, call>>

\* the put throws: STORAGE_ERROR, the job returns
StoreAggregateErr ==
  /\ Fail(1)
  /\ run.pc = "store"
  /\ run' = [run EXCEPT !.pc = "done", !.result = "STORAGE_ERROR", !.faults = TRUE,
                        !.errs = @ \cup {"store"}]
  /\ UNCHANGED <<store, captures, runs, firstBody, upd, alg, sched, call>>

\* storeMeta: put of the sidecar; its result is not looked at
StoreMetaOk ==
  /\ run.pc = "meta"
  /\ PutObject(MetaKey(run.level, OutPath(run.level, run.target)), MetaBody(run.summary))
  /\ run' = [run EXCEPT !.pc = "mget",
                        !.puts = Append(@, MetaKey(run.level, OutPath(run.level, run.target)))]
  /\ UNCHANGED <<captures, runs, faults, upd, alg, sched, call>>

StoreMetaErr ==
  /\ Fail(1)
  /\ run.pc = "meta"
  /\ run' = [run EXCEPT !.pc = "mget", !.faults = TRUE, !.errs = @ \cup {"meta"}]
  /\ UNCHANGED <<store, captures, runs, firstBody, upd, alg, sched, call>>

\* updateManifest: get and parse manifest.json, place the entry
ManifestGetOk ==
  /\ run.pc = "mget"
  /\ run' = [run EXCEPT
               !.pc = "mput",
               !.manifest = ApplyUpdate(LoadManifest(store), run.level,
                                        Timestamp(run.level, run.target), run.storedPath,
                                        run.summary.total_spots,
                                        run.summary.total_activations,
                                        MaxEntries(run.level))]
  /\ UNCHANGED <<store, captures, runs, faults, firstBody, upd, alg, sched, call>>

\* the get throws: updateManifest returns an error, the job warns and returns ok
ManifestGetErr ==
  /\ Fail(1)
  /\ run.pc = "mget"
  /\ run' = [run EXCEPT !.pc = "done", !.result = "ok", !.faults = TRUE,
                        !.errs = @ \cup {"manifest"}]
  /\ UNCHANGED <<store, captures, runs, firstBody, upd, alg, sched, call>>

\* updateManifest: put of manifest.json
ManifestPutOk ==
  /\ run.pc = "mput"
  /\ PutObject(ManifestKey, StoredManifest(run.manifest))
  /\ run' = [run EXCEPT !.pc = "done", !.result = "ok", !.manifest = EmptyManifest,
                        !.puts = Append(@, ManifestKey)]
  /\ UNCHANGED <<captures, runs, faults, upd, alg, sched, call>>

\* ManifestPutErr with the error of updateManifest returned by the job
ManifestPutErrReturned ==
  /\ Fail(1)
  /\ run.pc = "mput"
  /\ run' = [run EXCEPT !.pc = "done", !.result = "STORAGE_ERROR", !.faults = TRUE,
                        !.manifest = EmptyManifest, !.errs = @ \cup {"manifest"}]
  /\ UNCHANGED <<store, captures, runs, firstBody, upd, alg, sched, call>>

\* the put throws: updateManifest returns an error, the job warns and returns ok
ManifestPutErr ==
  /\ Fail(1)
  /\ run.pc = "mput"
  /\ run' = [run EXCEPT !.pc = "done", !.result = "ok", !.faults = TRUE,
                        !.manifest = EmptyManifest, !.errs = @ \cup {"manifest"}]
  /\ UNCHANGED <<store, captures, runs, firstBody, upd, alg, sched, call>>

Next ==
  \/ \E date \in Dates, snapshot \in Snapshots : Collect(date, snapshot)
  \/ \E level \in Levels : \E date \in Targets(level) : AggregateListError(level, date)
  \/ \E level \in Levels : \E date \in Targets(level) : AggregateEmpty(level, date)
  \/ \E level \in Levels : \E date \in Targets(level) :
       \E failed \in SUBSET Range(ListInputs(store, level, date)) :
         AggregateRead(level, date, failed)
  \/ StoreAggregateOk
  \/ StoreAggregateErr
  \/ StoreMetaOk
  \/ StoreMetaErr
  \/ ManifestGetOk
  \/ ManifestGetErr
  \/ ManifestPutOk
  \/ ManifestPutErr

Spec == Init /\ [][Next]_vars

---------------------------------------------------------------------------
(* updateManifest on its own: calls with any level, timestamp and path, one   *)
(* call at a time, from an absent, unreadable, legacy or current manifest     *)

\* timestamps handed to updateManifest: the bucket stamps of every level
TimeValues ==
  {getHourTimestamp(d) : d \in Dates} \cup {getDayTimestamp(d) : d \in Dates}
    \cup {getMonthTimestamp(d) : d \in Dates}

\* two object keys an entry can point to
SomePaths ==
  {addHashToFilename(RollupKey("hourly", <<1, 1, 0>>), <<>>),
   addHashToFilename(RollupKey("daily", <<1, 1>>), <<>>)}

LegacyEntry(timeValue) == Entry("timestamp", timeValue, CHOOSE p \in SomePaths : TRUE, 1, 1)

\* manifest.json as earlier versions of the worker left it: a `hours` list, or
\* the three lists with `timestamp` entries (src/workers/pota-aggregator/src/utils.ts)
LegacyManifests ==
  {[kind |-> "json", hasUpdatedAt |-> TRUE, hasHours |-> TRUE, hours |-> <<LegacyEntry(t)>>,
    hasHourly |-> FALSE, hourly |-> <<>>, hasDaily |-> FALSE, daily |-> <<>>,
    hasMonthly |-> FALSE, monthly |-> <<>>] : t \in TimeValues}
  \cup
  {[kind |-> "json", hasUpdatedAt |-> TRUE, hasHours |-> FALSE, hours |-> <<>>,
    hasHourly |-> TRUE, hourly |-> <<LegacyEntry(t)>>,
    hasDaily |-> TRUE, daily |-> <<LegacyEntry(t)>>,
    hasMonthly |-> TRUE, monthly |-> <<>>] : t \in TimeValues}

InitialStores ==
  {<<>>, Put(<<>>, ManifestKey, [kind |-> "invalid"])}
    \cup {Put(<<>>, ManifestKey, m) : m \in LegacyManifests}

InitManifest ==
  /\ store \in InitialStores
  /\ firstBody = <<>>
  /\ captures = 0
  /\ runs = 0
  /\ faults = 0
  /\ run = NoRun
  /\ upd = IdleCalls
  /\ sched = NoSched
  /\ call = NoCall
  /\ alg = NoAlg

\* updateManifest up to its put: get, parse, place the entry
UpdateManifestLoad(level, timeValue, path) ==
  /\ \A l \in Levels : upd[l].pc = "idle"
  /\ upd' = [upd EXCEPT ![level] =
               [pc |-> "loaded", timeValue |-> timeValue, path |-> path,
                manifest |-> ApplyUpdate(LoadManifest(store), level, timeValue, path, 1, 1,
                                         ManifestCap)]]
  /\ UNCHANGED <<store, captures, runs, faults, run, firstBody, alg, sched, call>>

\* the put of manifest.json, and the return of ok
UpdateManifestStore(level) ==
  /\ upd[level].pc = "loaded"
  /\ PutObject(ManifestKey, StoredManifest(upd[level].manifest))
  /\ upd' = [upd EXCEPT ![level] = [pc |-> "idle"]]
  /\ UNCHANGED <<captures, runs, faults, run, alg, sched, call>>

\* the put throws: STORAGE_ERROR is returned, nothing is written
UpdateManifestStoreErr(level) ==
  /\ upd[level].pc = "loaded"
  /\ upd' = [upd EXCEPT ![level] = [pc |-> "idle"]]
  /\ UNCHANGED <<store, captures, runs, faults, run, firstBody, alg, sched, call>>

NextManifest ==
  \/ \E level \in Levels, timeValue \in TimeValues, path \in SomePaths :
       UpdateManifestLoad(level, timeValue, path)
  \/ \E level \in Levels : UpdateManifestStore(level)
  \/ \E level \in Levels : UpdateManifestStoreErr(level)

SpecManifest == InitManifest /\ [][NextManifest]_vars

\* manifest.json in the `hours` format that carries daily entries as well: the
\* parse tests `parsed.hours && !parsed.hourly` and then reads `hours` alone
MixedLegacyManifests ==
  {[kind |-> "json", hasUpdatedAt |-> TRUE, hasHours |-> TRUE, hours |-> <<LegacyEntry(t)>>,
    hasHourly |-> FALSE, hourly |-> <<>>,
    hasDaily |-> TRUE, daily |-> daily,
    hasMonthly |-> TRUE, monthly |-> <<>>] :
     t \in {getHourTimestamp(d) : d \in Dates},
     daily \in {<<>>} \cup {<<Entry("day", getDayTimestamp(d), CHOOSE p \in SomePaths : TRUE, 1, 1)>> :
                               d \in Dates}}

InitLegacy ==
  /\ store \in {Put(<<>>, ManifestKey, m) : m \in MixedLegacyManifests}
  /\ firstBody = <<>>
  /\ captures = 0
  /\ runs = 0
  /\ faults = 0
  /\ run = NoRun
  /\ upd = IdleCalls
  /\ sched = NoSched
  /\ call = NoCall
  /\ alg = NoAlg

\* updateManifest on its own, from a manifest in the `hours` format
SpecLegacy == InitLegacy /\ [][NextManifest]_vars

---------------------------------------------------------------------------
(* The merge of hourly aggregates against the aggregate of the whole:
   aggregateSpotsToHourly on each part of a partition, mergeAggregatesIntoGroups
   part by part in any order, groupsToAggregates at the end. *)

\* spots with distinct spotIds, as the collector stores them
AlgSpots == normalizeSpots(<<U1, U2, U3, U4, U5>>)
AlgHour == getHourTimestamp([mo |-> 1, d |-> 1, h |-> 0])

\* the spots that f sends to p, in the order of AlgSpots
Pick(f, p) ==
  LET idx == SelectSeq([i \in 1..Len(AlgSpots) |-> i], LAMBDA i : f[i] = p)
  IN [j \in 1..Len(idx) |-> AlgSpots[idx[j]]]

\* f[i] = 0 leaves spot i out of S; otherwise f[i] is the part of spot i
Partitions ==
  {[spots |-> SelectSeq(AlgSpots, LAMBDA x : \E i \in 1..Len(AlgSpots) :
                                                f[i] # 0 /\ AlgSpots[i] = x),
    parts |-> {Pick(f, p) : p \in 1..MaxParts} \ {<<>>}] :
     f \in [1..Len(AlgSpots) -> 0..MaxParts]}

InitAlgebra ==
  /\ store = <<>>
  /\ firstBody = <<>>
  /\ captures = 0
  /\ runs = 0
  /\ faults = 0
  /\ run = NoRun
  /\ upd = IdleCalls
  /\ sched = NoSched
  /\ call = NoCall
  /\ \E pt \in Partitions :
       alg = [pc |-> "merging", spots |-> pt.spots, todo |-> pt.parts,
              groups |-> <<>>, rows |-> <<>>, whole |-> <<>>]

\* one more part: its hourly aggregate is merged into the groups
MergePart(part) ==
  /\ alg.pc = "merging"
  /\ part \in alg.todo
  /\ alg' = [alg EXCEPT
               !.todo = @ \ {part},
               !.groups = mergeAggregatesIntoGroups(aggregateSpotsToHourly(part, AlgHour), @)]
  /\ UNCHANGED <<store, captures, runs, faults, run, firstBody, upd, sched, call>>

\* all parts merged: the rows of the merge, and the rows of
\* aggregateSpotsToHourly on the whole input
FinishMerge ==
  /\ alg.pc = "merging"
  /\ alg.todo = {}
  /\ alg' = [alg EXCEPT !.pc = "done",
                        !.rows = groupsToAggregates(alg.groups, "hour", AlgHour),
                        !.whole = aggregateSpotsToHourly(alg.spots, AlgHour)]
  /\ UNCHANGED <<store, captures, runs, faults, run, firstBody, upd, sched, call>>

NextAlgebra ==
  \/ \E part \in alg.todo : MergePart(part)
  \/ FinishMerge

SpecAlgebra == InitAlgebra /\ [][NextAlgebra]_vars

----------------------------------------------------------------------------
(* updateManifest called once for each level, the calls of different levels  *)
(* overlapping: the get and the put of a call are two awaits, and another    *)
(* invocation of the worker can run between them                             *)

\* updateManifest up to its put, while calls of other levels may be under way
UpdateManifestGet(level, timeValue, path) ==
  /\ upd[level].pc = "idle"
  /\ upd' = [upd EXCEPT ![level] =
               [pc |-> "loaded", timeValue |-> timeValue, path |-> path,
                manifest |-> ApplyUpdate(LoadManifest(store), level, timeValue, path, 1, 1,
                                         ManifestCap)]]
  /\ UNCHANGED <<store, captures, runs, faults, run, firstBody, alg, sched, call>>

\* the put of manifest.json, and the return of ok
UpdateManifestPut(level) ==
  /\ upd[level].pc = "loaded"
  /\ PutObject(ManifestKey, StoredManifest(upd[level].manifest))
  /\ upd' = [upd EXCEPT ![level] = [pc |-> "stored", timeValue |-> upd[level].timeValue,
                                    path |-> upd[level].path]]
  /\ UNCHANGED <<captures, runs, faults, run, alg, sched, call>>

\* the put throws: STORAGE_ERROR is returned, nothing is written
UpdateManifestPutErr(level) ==
  /\ upd[level].pc = "loaded"
  /\ upd' = [upd EXCEPT ![level] = [pc |-> "failed"]]
  /\ UNCHANGED <<store, captures, runs, faults, run, firstBody, alg, sched, call>>

NextInterleave ==
  \/ \E level \in Levels, timeValue \in TimeValues, path \in SomePaths :
       UpdateManifestGet(level, timeValue, path)
  \/ \E level \in Levels : UpdateManifestPut(level)
  \/ \E level \in Levels : UpdateManifestPutErr(level)

SpecInterleave == InitManifest /\ [][NextInterleave]_vars

----------------------------------------------------------------------------
(* The cron schedule: the collector every minute, the aggregator at xx:05,   *)
(* at 00:15 and at 00:30 on the 1st, each invocation finished before the     *)
(* next. Here a Date is [mo, d, h, mi] in the real calendar; mo counts the   *)
(* months from January of FirstYear, so paths of a later year sort later.    *)
(* The clock visits the minutes 0, 5, 15, 30 and 45 of every hour of a       *)
(* window that starts at 22:00 of a chosen day and crosses midnight.         *)

FirstYear == 2023
CalMonths == 24
MaxTicks == 15
MaxTickCaptures == 2

getUTCMonth(date) == (date.mo - 1) % 12
getUTCDate(date) == date.d
getUTCHours(date) == date.h

\* DaysInMonth of ECMAScript, with its leap years
DaysInMonth(mo) ==
  LET m == (mo - 1) % 12
      y == FirstYear + ((mo - 1) \div 12)
      leap == (y % 4 = 0 /\ y % 100 # 0) \/ y % 400 = 0
  IN IF m = 1 THEN (IF leap THEN 29 ELSE 28)
     ELSE IF m \in {3, 5, 8, 10} THEN 30
     ELSE 31

RECURSIVE DaysBefore(_)
DaysBefore(mo) == IF mo <= 1 THEN 0 ELSE DaysBefore(mo - 1) + DaysInMonth(mo - 1)

\* MakeDay: the day number of day dt of month mo, dt in or out of the month
MakeDay(mo, dt) == DaysBefore(mo) + dt - 1

\* MakeDate and the reading of the fields back: hours carry into days, days into months
MakeDate(day, hours, mi) ==
  LET total == day * 24 + hours
      dd == total \div 24
      mo == CHOOSE k \in 1..CalMonths : DaysBefore(k) <= dd /\ dd < DaysBefore(k) + DaysInMonth(k)
  IN [mo |-> mo, d |-> dd - DaysBefore(mo) + 1, h |-> total % 24, mi |-> mi]

setUTCHours(date, hours) == MakeDate(MakeDay(date.mo, date.d), hours, date.mi)
setUTCDate(date, dt) == MakeDate(MakeDay(date.mo, dt), date.h, date.mi)

\* setUTCMonth with months below 0 staying in the year of the date
setUTCMonthInYear(date, month) ==
  MakeDate(MakeDay(date.mo - getUTCMonth(date) + ((month + 12) % 12), date.d), date.h, date.mi)

setUTCMonth(date, month) ==
  MakeDate(MakeDay(date.mo - getUTCMonth(date) + month, date.d), date.h, date.mi)

HourlyCron == "5 * * * *"
DailyCron == "15 0 * * *"
MonthlyCron == "30 0 1 * *"
\* a trigger the handler does not know
OtherCron == "45 * * * *"
AggregatorCrons == {HourlyCron, DailyCron, MonthlyCron, OtherCron}

\* CronMatches with the hourly trigger at xx:30
CronMatchesHourlyLate(cron, now) ==
  IF cron = HourlyCron THEN now.mi = 30
  ELSE IF cron = DailyCron THEN now.mi = 15 /\ now.h = 0
  ELSE IF cron = MonthlyCron THEN now.mi = 30 /\ now.h = 0 /\ now.d = 1
  ELSE now.mi = 45

\* the trigger fires at `now`
CronMatches(cron, now) ==
  IF cron = HourlyCron THEN now.mi = 5
  ELSE IF cron = DailyCron THEN now.mi = 15 /\ now.h = 0
  ELSE IF cron = MonthlyCron THEN now.mi = 30 /\ now.h = 0 /\ now.d = 1
  ELSE now.mi = 45

\* the next minute the clock visits
NextSlot(now) ==
  IF now.mi = 0 THEN [now EXCEPT !.mi = 5]
  ELSE IF now.mi = 5 THEN [now EXCEPT !.mi = 15]
  ELSE IF now.mi = 15 THEN [now EXCEPT !.mi = 30]
  ELSE IF now.mi = 30 THEN [now EXCEPT !.mi = 45]
  ELSE MakeDate(MakeDay(now.mo, now.d), now.h + 1, 0)

\* the days at whose 22:00 a window starts: one mid-month, and the last days of
\* a January, of the February of either year, of an April and of a December
StartDays == {<<1, 15>>} \cup {<<mo, DaysInMonth(mo)>> : mo \in {1, 2, 4, 12, 14}}
StartInstants == {[mo |-> sd[1], d |-> sd[2], h |-> 22, mi |-> 0] : sd \in StartDays}

\* scheduled() of the aggregator: the job and the target date for controller.cron
Target(cron, now) ==
  IF cron = HourlyCron
    THEN [level |-> "hourly", date |-> setUTCHours(now, getUTCHours(now) - 1)]
  ELSE IF cron = DailyCron
    THEN [level |-> "daily", date |-> setUTCDate(now, getUTCDate(now) - 1)]
  ELSE IF cron = MonthlyCron
    THEN [level |-> "monthly", date |-> setUTCMonth(now, getUTCMonth(now) - 1)]
  ELSE [level |-> "hourly", date |-> setUTCHours(now, getUTCHours(now) - 1)]

\* the first body of a key, kept
Remember(fb, key, body) ==
  IF key = ManifestKey \/ key \in DOMAIN fb THEN fb ELSE Put(fb, key, body)

\* aggregateHour / aggregateDay / aggregateMonth with every store call succeeding:
\* the store and the first bodies after the job
RunJob(st, fb, level, date) ==
  LET fileKeys == ListInputs(st, level, date)
  IN IF fileKeys = <<>>
     THEN [store |-> st, firstBody |-> fb, storedPath |-> NoKey, fileKeys |-> fileKeys]
     ELSE LET summary == ComputeSummary(level, date, fileKeys, ReadOk(st, fileKeys, {}))
              hashedKey == HashedKey(level, date, summary.aggregates)
              metaKey == MetaKey(level, OutPath(level, date))
              st1 == Put(st, hashedKey, summary.aggregates)
              st2 == Put(st1, metaKey, MetaBody(summary))
              manifest == ApplyUpdate(LoadManifest(st2), level, Timestamp(level, date),
                                      hashedKey, summary.total_spots,
                                      summary.total_activations, MaxEntries(level))
          IN [store |-> Put(st2, ManifestKey, StoredManifest(manifest)),
              firstBody |-> Remember(Remember(fb, hashedKey, summary.aggregates),
                                     metaKey, MetaBody(summary)),
              storedPath |-> hashedKey, fileKeys |-> fileKeys]

\* formatDatePath without the hour
formatDatePathOfDay(date) == <<date.mo, date.d>>

\* formatDatePath and formatTimestamp of the collector; of the timestamp the
\* part after the hour
formatDatePath(date) == <<date.mo, date.d, date.h>>
formatTimestamp(date) == date.mi

InitSchedule ==
  /\ store = <<>>
  /\ firstBody = <<>>
  /\ captures = 0
  /\ runs = 0
  /\ faults = 0
  /\ run = NoRun
  /\ upd = IdleCalls
  /\ alg = NoAlg
  /\ call = NoCall
  /\ \E start \in StartInstants :
       sched = [pc |-> "on", now |-> start, ticks |-> 0, last |-> [kind |-> "none"]]

\* the clock moves on, the invocation is the last one made
Ticked(last) ==
  sched' = [sched EXCEPT !.now = NextSlot(sched.now), !.ticks = @ + 1, !.last = last]

\* a minute of the window at which no trigger of the deployed aggregator fires
CollectorMinute ==
  /\ sched.pc = "on"
  /\ sched.ticks < MaxTicks
  /\ \A cron \in {HourlyCron, DailyCron, MonthlyCron} : ~CronMatches(cron, sched.now)

\* scheduled() of the collector: fetch, normalise, put one raw object
CollectTick(snapshot) ==
  /\ CollectorMinute
  /\ captures < MaxTickCaptures
  /\ LET key == RawKey(formatDatePath(sched.now), formatTimestamp(sched.now))
     IN /\ PutObject(key, normalizeSpots(snapshot))
        /\ Ticked([kind |-> "collect", at |-> sched.now, result |-> "ok", key |-> key])
  /\ captures' = captures + 1
  /\ UNCHANGED <<runs, faults, run, upd, alg, call>>

\* the fetch fails or the body is no array (fetchSpots), or the put throws
\* (storeSpots): the error is logged, nothing is written
CollectTickErr(type) ==
  /\ CollectorMinute
  /\ Ticked([kind |-> "collect", at |-> sched.now, result |-> type])
  /\ UNCHANGED <<store, captures, runs, faults, run, firstBody, upd, alg, call>>

\* scheduled() of the aggregator for a trigger that fires now
ScheduledTick(cron) ==
  /\ sched.pc = "on"
  /\ sched.ticks < MaxTicks
  /\ CronMatches(cron, sched.now)
  /\ LET target == Target(cron, sched.now)
         job == RunJob(store, firstBody, target.level, target.date)
     IN /\ store' = job.store
        /\ firstBody' = job.firstBody
        /\ Ticked([kind |-> "aggregate", at |-> sched.now, cron |-> cron,
                   level |-> target.level, date |-> target.date,
                   bucket |-> OutPath(target.level, target.date),
                   fileKeys |-> job.fileKeys, storedPath |-> job.storedPath])
  /\ UNCHANGED <<captures, runs, faults, run, upd, alg, call>>

NextSchedule ==
  \/ \E snapshot \in Snapshots : CollectTick(snapshot)
  \/ \E type \in {"FETCH_ERROR", "PARSE_ERROR", "STORAGE_ERROR"} : CollectTickErr(type)
  \/ \E cron \in AggregatorCrons : ScheduledTick(cron)

SpecSchedule == InitSchedule /\ [][NextSchedule]_vars

----------------------------------------------------------------------------
(* The normaliser of the collector applied to one upstream spot: frequencies *)
(* at, next to and between the limits of every range, zero, a negative and   *)
(* an unparseable one; references with and without a prefix                  *)

\* the limits of the ranges in kHz
BandLimits ==
  {1800, 2000, 3500, 4000, 5300, 5400, 7000, 7300, 10100, 10150, 14000, 14350, 18068,
   18168, 21000, 21450, 24890, 24990, 28000, 29700, 50000, 54000, 144000, 148000,
   420000, 450000}

\* the frequency strings of the model, by what parseFloat makes of them
FrequencyInputs ==
  {Khz(n + e) : n \in BandLimits, e \in {-1, 0, 1}}
    \cup {Khz(n) : n \in {0, -7137, 1900, 3750, 7137, 14175, 52000, 146000, 435000}}
    \cup {[ok |-> FALSE]}

\* "K-1234", "US-PA-1234", "", "-1234", "K"
ReferenceInputs ==
  {<<"K", "-", "1", "2", "3", "4">>,
   <<"U", "S", "-", "P", "A", "-", "1", "2", "3", "4">>,
   <<>>,
   <<"-", "1", "2", "3", "4">>,
   <<"K">>}

InitNormalize ==
  /\ store = <<>>
  /\ firstBody = <<>>
  /\ captures = 0
  /\ runs = 0
  /\ faults = 0
  /\ run = NoRun
  /\ upd = IdleCalls
  /\ alg = NoAlg
  /\ sched = NoSched
  /\ \E frequency \in FrequencyInputs, reference \in ReferenceInputs :
       call = [pc |-> "spot",
               spot |-> [spotId |-> 1, activator |-> Str("W"), frequency |-> frequency,
                         mode |-> <<"c", "w">>, reference |-> reference, loc |-> "none"]]

\* normalizeSpots on the one spot
NormalizeCall ==
  /\ call.pc = "spot"
  /\ call' = [pc |-> "normalized", spot |-> call.spot,
              out |-> normalizeSpots(<<call.spot>>)[1]]
  /\ UNCHANGED <<store, captures, runs, faults, run, firstBody, upd, alg, sched>>

NextNormalize == NormalizeCall

SpecNormalize == InitNormalize /\ [][NextNormalize]_vars

----------------------------------------------------------------------------
(* filterManifestByTimeRangeWithLevel of the shared package as a function of *)
(* the manifest, the time range, the base URL and the clock. Instants are    *)
(* minutes; an hourly entry carries the number of its hour, a daily entry the *)
(* number of its day, and a path is the sequence of its segments.            *)

TimeRanges == {"1h", "24h", "7d", "30d"}

TIME_RANGE_HOURS == [timeRange \in TimeRanges |->
  CASE timeRange = "1h" -> 1
    [] timeRange = "24h" -> 24
    [] timeRange = "7d" -> 168
    [] timeRange = "30d" -> 720]

HourlyEntry(hour) == [hour |-> hour, path |-> <<"hourly", ToString(hour)>>]
DailyEntry(day) == [day |-> day, path |-> <<"daily", ToString(day)>>]

\* new Date(h.hour), new Date(d.day) and the day an hour belongs to
HourStart(hour) == hour * 60
DayStart(day) == day * 24 * 60
DayOfInstant(minutes) == minutes \div (24 * 60)

Absent == [present |-> FALSE, entries |-> <<>>]
Present(entries) == [present |-> TRUE, entries |-> entries]

\* manifest.daily ?? []
DailyEntries(manifest) ==
  IF manifest.daily.present THEN manifest.daily.entries ELSE <<>>

selectRollupLevelHourly(manifest, timeRange) == "hourly"

selectRollupLevel(manifest, timeRange) ==
  IF timeRange = "1h" \/ timeRange = "24h" THEN "hourly"
  ELSE IF Len(DailyEntries(manifest)) > 0 THEN "daily"
  ELSE "hourly"

\* manifest.hourly ?? manifest.hours ?? []
getHourlyEntries(manifest) ==
  IF manifest.hourly.present THEN manifest.hourly.entries
  ELSE IF manifest.hours.present THEN manifest.hours.entries
  ELSE <<>>

\* `${baseUrl}/${path}`
Url(baseUrl, path) == baseUrl \o <<"/">> \o path

UrlsOf(baseUrl, entries) == [i \in 1..Len(entries) |-> Url(baseUrl, entries[i].path)]

filterManifestByTimeRangeWithLevel(manifest, timeRange, baseUrl, now) ==
  LET rollupLevel == selectRollupLevel(manifest, timeRange)
      hoursBack == TIME_RANGE_HOURS[timeRange]
      cutoff == now - hoursBack * 60
  IN IF rollupLevel = "daily"
     THEN LET urls == UrlsOf(baseUrl,
                        SelectSeq(DailyEntries(manifest),
                                  LAMBDA d : DayStart(d.day) >= cutoff))
              todayHourly == UrlsOf(baseUrl,
                               SelectSeq(getHourlyEntries(manifest),
                                         LAMBDA h : DayOfInstant(HourStart(h.hour))
                                                      = DayOfInstant(now)))
          IN [urls |-> urls \o todayHourly, rollupLevel |-> rollupLevel]
     ELSE [urls |-> UrlsOf(baseUrl,
                      SelectSeq(getHourlyEntries(manifest),
                                LAMBDA h : HourStart(h.hour) + 60 > cutoff)),
           rollupLevel |-> rollupLevel]

\* the clock: 16:00 and 16:30 of day 41
FilterInstants == {1000 * 60, 1000 * 60 + 30}

\* hours at and around the limits of the windows and of the present day
FilterHours == {1000, 999, 984, 983, 976, 975, 832, 831}
FilterDays == {41, 40, 35, 34}

\* lists in descending order, as the aggregator stores them
HourlyLists ==
  {<<>>} \cup {<<HourlyEntry(h)>> : h \in FilterHours}
         \cup {<<HourlyEntry(h), HourlyEntry(g)>> : h, g \in FilterHours} 

DailyLists ==
  {<<>>} \cup {<<DailyEntry(d)>> : d \in FilterDays}
         \cup {<<DailyEntry(d), DailyEntry(c)>> : d, c \in FilterDays}

Descending(entries, field) ==
  \A i \in 1..(Len(entries) - 1) : entries[i][field] > entries[i + 1][field]

FilterManifests ==
  {[hourly |-> hourly, hours |-> hours, daily |-> daily] :
     hourly \in {Absent} \cup {Present(l) : l \in {m \in HourlyLists : Descending(m, "hour")}},
     hours \in {Absent, Present(<<HourlyEntry(999)>>)},
     daily \in {Absent} \cup {Present(l) : l \in {m \in DailyLists : Descending(m, "day")}}}

BaseUrls == {<<"https:", "", "r2.example.com">>, <<"">>}

InitFilter ==
  /\ store = <<>>
  /\ captures = 0
  /\ runs = 0
  /\ faults = 0
  /\ run = NoRun
  /\ firstBody = <<>>
  /\ upd = IdleCalls
  /\ alg = NoAlg
  /\ sched = NoSched
  /\ \E manifest \in FilterManifests, timeRange \in TimeRanges,
        baseUrl \in BaseUrls, now \in FilterInstants :
       call = [pc |-> "filter", manifest |-> manifest, timeRange |-> timeRange,
               baseUrl |-> baseUrl, now |-> now]

FilterCall ==
  /\ call.pc = "filter"
  /\ call' = [pc |-> "filtered", manifest |-> call.manifest,
              timeRange |-> call.timeRange, baseUrl |-> call.baseUrl,
              now |-> call.now,
              result |-> filterManifestByTimeRangeWithLevel(
                           call.manifest, call.timeRange, call.baseUrl, call.now)]
  /\ UNCHANGED <<store, captures, runs, faults, run, firstBody, upd, alg, sched>>

NextFilter == FilterCall

SpecFilter == InitFilter /\ [][NextFilter]_vars

----------------------------------------------------------------------------
(* generateAllSummaries after the aggregation runs of the pipeline. It runs  *)
(* within a day of the model's last hour, so every manifest entry is inside  *)
(* the 24 h, 7 d, 14 d and 30 d windows. Of the period statistics and the     *)
(* all-time summary the totals are modelled; of time_of_day, day_of_week,    *)
(* trends and top_entities only that they are written.                       *)

SummaryKey(name) == [tier |-> "summaries", path |-> <<name>>, ext |-> "json"]

createEmptyGroups ==
  [totalSpots |-> 0, activators |-> <<>>, parks |-> <<>>, activations |-> <<>>]

RECURSIVE mergeIntoGroups(_, _)
mergeIntoGroups(groups, aggregates) ==
  IF aggregates = <<>> THEN groups
  ELSE LET agg == Head(aggregates)
       IN mergeIntoGroups([totalSpots |-> groups.totalSpots + agg.spot_count,
                           activators |-> SetAddAll(groups.activators, agg.activators),
                           parks |-> SetAddAll(groups.parks, agg.parks),
                           activations |-> SetAddAll(groups.activations, agg.activations)],
                          Tail(aggregates))

\* readAggregateFile of summaries.ts: the rows of the object, none when it is absent
ReadRows(st, key) == IF key \in DOMAIN st THEN st[key] ELSE <<>>

\* for (const file of files) mergeIntoGroups(groups, rows of file.path)
RECURSIVE MergeEntries(_, _, _)
MergeEntries(st, files, groups) ==
  IF files = <<>> THEN groups
  ELSE MergeEntries(st, Tail(files), mergeIntoGroups(groups, ReadRows(st, Head(files).path)))

groupsToPeriodStats(groups, period) ==
  [period |-> period,
   total_spots |-> groups.totalSpots,
   total_activations |-> Len(groups.activations),
   unique_activators |-> Len(groups.activators),
   unique_parks |-> Len(groups.parks)]

\* if (!earliestDate || t < earliestDate) earliestDate = t, over the files
RECURSIVE EarliestDate(_, _)
EarliestDate(files, earliestDate) ==
  IF files = <<>> THEN earliestDate
  ELSE EarliestDate(Tail(files),
                    IF earliestDate = <<>> \/ localeCompare(Head(files).t, earliestDate) < 0
                    THEN Head(files).t
                    ELSE earliestDate)

\* file.day.slice(0, 7) and file.hour.slice(0, 10)
MonthOfDay(day) == SubSeq(day, 1, 1)
DayOfHour(hour) == SubSeq(hour, 1, 2)

\* the files the all-time summary merges: the monthly ones, the daily ones of
\* months without a monthly entry, the hourly ones of days without a daily entry
AllTimeFiles(manifest) ==
  LET coveredMonths == {manifest.monthly[i].t : i \in 1..Len(manifest.monthly)}
      coveredDays == {manifest.daily[i].t : i \in 1..Len(manifest.daily)}
  IN [monthly |-> manifest.monthly,
      daily |-> SelectSeq(manifest.daily, LAMBDA e : MonthOfDay(e.t) \notin coveredMonths),
      hourly |-> SelectSeq(manifest.hourly, LAMBDA e : DayOfHour(e.t) \notin coveredDays)]

AllTime(st, manifest) ==
  LET files == AllTimeFiles(manifest)
      groups == MergeEntries(st, files.hourly,
                  MergeEntries(st, files.daily,
                    MergeEntries(st, files.monthly, createEmptyGroups)))
  IN [total_spots |-> groups.totalSpots,
      total_activations |-> Len(groups.activations),
      unique_activators |-> Len(groups.activators),
      unique_parks |-> Len(groups.parks),
      data_since |-> EarliestDate(files.daily, EarliestDate(files.monthly, <<>>))]

\* the objects a summary run puts, in the order of the puts
SummaryObjects(st, manifest) ==
  <<<<SummaryKey("stats_24h"),
      groupsToPeriodStats(MergeEntries(st, manifest.hourly, createEmptyGroups), "24h")>>,
    <<SummaryKey("time_of_day"), [kind |-> "json"]>>,
    <<SummaryKey("stats_7d"),
      groupsToPeriodStats(MergeEntries(st, manifest.daily, createEmptyGroups), "7d")>>,
    <<SummaryKey("day_of_week"), [kind |-> "json"]>>,
    <<SummaryKey("stats_30d"),
      groupsToPeriodStats(MergeEntries(st, manifest.daily, createEmptyGroups), "30d")>>,
    <<SummaryKey("all_time"), AllTime(st, manifest)>>,
    <<SummaryKey("trends"), [kind |-> "json"]>>,
    <<SummaryKey("top_entities"), [kind |-> "json"]>>>>

RECURSIVE PutAll(_, _)
PutAll(st, objects) ==
  IF objects = <<>> THEN st
  ELSE PutAll(Put(st, Head(objects)[1], Head(objects)[2]), Tail(objects))

RECURSIVE RememberAll(_, _)
RememberAll(fb, objects) ==
  IF objects = <<>> THEN fb
  ELSE RememberAll(Remember(fb, Head(objects)[1], Head(objects)[2]), Tail(objects))

\* generateAllSummaries, every read and put succeeding; without a manifest it
\* returns at once
GenerateAllSummaries ==
  /\ Finished
  /\ call.pc = "none"
  /\ IF ManifestKey \notin DOMAIN store
     THEN /\ call' = [pc |-> "summarized", wrote |-> FALSE]
          /\ UNCHANGED <<store, firstBody>>
     ELSE LET objects == SummaryObjects(store, store[ManifestKey])
          IN /\ store' = PutAll(store, objects)
             /\ firstBody' = RememberAll(firstBody, objects)
             /\ call' = [pc |-> "summarized", wrote |-> TRUE,
                         files |-> AllTimeFiles(store[ManifestKey])]
  /\ UNCHANGED <<captures, runs, faults, run, upd, alg, sched>>

\* aggregation runs and collector ticks, then one summary run
NextSummary ==
  \/ call.pc = "none" /\ Next
  \/ GenerateAllSummaries

SpecSummary == Init /\ [][NextSummary]_vars

---------------------------------------------------------------------------
(* Properties *)

\* the lists of the stored manifest.json, as stored
StoredLists ==
  IF ManifestKey \in DOMAIN store /\ store[ManifestKey].kind = "json"
  THEN [hourly |-> store[ManifestKey].hourly,
        daily |-> store[ManifestKey].daily,
        monthly |-> store[ManifestKey].monthly]
  ELSE EmptyManifest

StrictlyDescending(entries) ==
  \A i, j \in 1..Len(entries) : i < j => localeCompare(entries[i].t, entries[j].t) > 0

\* C1: after any sequence of updateManifest calls each of the hourly, daily and
\* monthly lists of the manifest is sorted strictly descending by timestamp (so no
\* timestamp occurs twice) and has at most its cap of entries.
C1_ManifestListsSortedCapped ==
  \A level \in Levels :
    /\ StrictlyDescending(StoredLists[level])
    /\ \A i, j \in 1..Len(StoredLists[level]) :
         i # j => StoredLists[level][i].t # StoredLists[level][j].t
    /\ Len(StoredLists[level]) <= ManifestCap

\* a manifest written by updateManifest with every list at its cap, after a call
\* whose timestamp was not kept
C1_Witness ==
  /\ ManifestKey \in DOMAIN store
  /\ store[ManifestKey].kind = "json"
  /\ ~store[ManifestKey].hasHours
  /\ \A level \in Levels : Len(StoredLists[level]) = ManifestCap
  /\ \E level \in Levels :
       /\ upd[level].pc = "loaded"
       /\ \A i \in 1..Len(upd[level].manifest[level]) :
            upd[level].manifest[level][i].t # upd[level].timeValue

\* the hashed rollup objects of the store and their rows
RollupKeys == {k \in DOMAIN store : "hash" \in DOMAIN k}
MergedKeys == {k \in RollupKeys : k.tier \in {"daily", "monthly"}}

\* C2: in every state of any sequence of runs, failed ones included, every path
\* listed in manifest.json is the key of an object of the store; a run that has
\* reached its manifest update has put the rollup object it is about to list.
C2_ManifestPathsExist ==
  /\ \A level \in Levels :
       \A i \in 1..Len(StoredLists[level]) : StoredLists[level][i].path \in DOMAIN store
  /\ run.pc \in {"mget", "mput"} => run.storedPath \in DOMAIN store
  /\ run.pc = "mput" =>
       \A level \in Levels :
         \A i \in 1..Len(run.manifest[level]) : run.manifest[level][i].path \in DOMAIN store

\* a manifest with an entry, after a run that ended in STORAGE_ERROR
C2_Witness ==
  /\ run.pc = "done"
  /\ run.result = "STORAGE_ERROR"
  /\ Len(StoredLists["hourly"]) > 0

\* C3: every row of every published rollup file has unique_activators, unique_parks
\* and activation_count equal to the number of distinct elements of its activators,
\* parks and activations.
C3_CardinalitiesMatchSets ==
  \A k \in RollupKeys :
    \A i \in 1..Len(store[k]) :
      /\ store[k][i].unique_activators = DistinctCount(store[k][i].activators)
      /\ store[k][i].unique_parks = DistinctCount(store[k][i].parks)
      /\ store[k][i].activation_count = DistinctCount(store[k][i].activations)

\* a merged file with a row that counts several spots of one activator
C3_Witness ==
  \E k \in MergedKeys :
    \E i \in 1..Len(store[k]) :
      store[k][i].spot_count >= 2 /\ store[k][i].unique_activators = 1

\* C4: every row of every published rollup file has spot_count >= activation_count
\* and spot_count >= unique_activators.
C4_SpotCountBounds ==
  \A k \in RollupKeys :
    \A i \in 1..Len(store[k]) :
      /\ store[k][i].spot_count >= store[k][i].activation_count
      /\ store[k][i].spot_count >= store[k][i].unique_activators

\* a daily file, merged from published hourly children, with a row whose
\* spot_count exceeds its activation_count
C4_Witness ==
  \E k \in RollupKeys :
    /\ k.tier = "daily"
    /\ \E i \in 1..Len(store[k]) : store[k][i].spot_count > store[k][i].activation_count

\* C5: within a single published rollup file no two rows have the same
\* (mode, band, entity).
C5_RowKeysUnique ==
  \A k \in RollupKeys :
    \A i, j \in 1..Len(store[k]) :
      i # j => <<store[k][i].mode, store[k][i].band, store[k][i].entity>>
                 # <<store[k][j].mode, store[k][j].band, store[k][j].entity>>

\* the metrics of the rows of a file, key by key
Metrics(rows) ==
  {[mode |-> rows[i].mode, band |-> rows[i].band, entity |-> rows[i].entity,
    spot_count |-> rows[i].spot_count,
    activators |-> Range(rows[i].activators),
    parks |-> Range(rows[i].parks),
    activations |-> Range(rows[i].activations),
    unique_activators |-> rows[i].unique_activators,
    unique_parks |-> rows[i].unique_parks,
    activation_count |-> rows[i].activation_count] : i \in 1..Len(rows)}

\* C6: for spots S with distinct spotIds, any partition of S and any order of
\* merging, the merge of the hourly aggregates of the parts has for each
\* (mode, band, entity) the spot_count, the activator, park and activation sets and
\* the cardinalities of aggregateSpotsToHourly applied to S.
C6_MergeEqualsWhole ==
  alg.pc = "done" => Metrics(alg.rows) = Metrics(aggregateSpotsToHourly(alg.spots, AlgHour))

HasBar(x) == \E i \in 1..Len(x) : x[i] = "|"

\* the same, for spots whose mode, band and entity are free of '|': the merge and
\* the aggregate of the whole agree, and a cardinality is that of the union
MergeEqualsWholeWithoutBar ==
  (/\ alg.pc = "done"
   /\ \A i \in 1..Len(alg.spots) :
        ~HasBar(alg.spots[i].mode) /\ ~HasBar(alg.spots[i].band)
          /\ ~HasBar(alg.spots[i].entity))
    => Metrics(alg.rows) = Metrics(aggregateSpotsToHourly(alg.spots, AlgHour))

\* the manifest entries of the bucket of the current run
RunEntryPaths == EntryPaths(store, run.level, Timestamp(run.level, run.target))

\* C7: a job run a second time on unchanged inputs computes the same rows, the
\* same hash and the same key as the run before it: its put adds no rollup key
\* to the store, and the path of the bucket's manifest entry is what it was.
C7_RerunUnchangedSameKey ==
  (Clean(run) /\ run.prevSame) =>
    /\ run.storedPath = run.prevKey
    /\ run.existed
    /\ store[run.storedPath] = run.summary.aggregates
    /\ RunEntryPaths = run.entryBefore

\* a second run on unchanged inputs has finished, the bucket listed before and after
C7_Witness ==
  /\ Clean(run)
  /\ run.prevSame
  /\ run.entryBefore = <<run.prevKey>>
  /\ RunEntryPaths = <<run.storedPath>>

C9_OnlyManifestMutable ==
  \A k \in DOMAIN store :
    (k # ManifestKey /\ k.tier \in Levels) => store[k] = firstBody[k]

\* the hashed rollup objects alone do keep the body of their first write
RollupObjectsImmutable ==
  \A k \in RollupKeys : store[k] = firstBody[k]

\* the spots of the files without those of one spotId
Without(bodies, id) ==
  [b \in 1..Len(bodies) |-> SelectSeq(bodies[b], LAMBDA x : x.spotId # id)]

RowSum(rows) == SumSeq([i \in 1..Len(rows) |-> rows[i].spot_count])

\* the spotIds that occur more than once in the files
Repeated(bodies) ==
  LET all == Flatten(bodies)
  IN {all[i].spotId : i \in {j \in 1..Len(all) : \E k \in 1..Len(all) :
                                   k # j /\ all[k].spotId = all[j].spotId}}

\* what the spots of one spotId add to the rows and to total_spots of an hourly
\* run: the published values less those of the same files without that spotId
AddsToRows(id) ==
  LET bodies == ReadOk(store, run.fileKeys, {})
  IN RowSum(store[run.storedPath])
       - RowSum(HourSummary(run.target, run.fileKeys, Without(bodies, id)).aggregates)

AddsToTotal(id) ==
  LET bodies == ReadOk(store, run.fileKeys, {})
  IN run.summary.total_spots
       - HourSummary(run.target, run.fileKeys, Without(bodies, id)).total_spots

\* C10: a spotId that occurs several times in the capture files of the hour adds
\* exactly 1 to the spot_count of the rows of the published hourly rollup and
\* exactly 1 to total_spots.
C10_SpotIdCountedOnce ==
  (Clean(run) /\ run.level = "hourly") =>
    \A id \in Repeated(ReadOk(store, run.fileKeys, {})) :
      AddsToRows(id) = 1 /\ AddsToTotal(id) = 1

\* the same for total_spots alone: deduplication by spotId is exact
SpotIdCountedOnceInTotal ==
  (Clean(run) /\ run.level = "hourly") =>
    \A id \in Repeated(ReadOk(store, run.fileKeys, {})) : AddsToTotal(id) = 1

\* the same for the rows alone, for the spotIds whose spot has a mode and an entity
KeyedSpotIdCountedOnceInRows ==
  (Clean(run) /\ run.level = "hourly") =>
    LET bodies == ReadOk(store, run.fileKeys, {})
        unique == UniqueSpots(bodies)
    IN \A id \in Repeated(bodies) :
         (\E i \in 1..Len(unique) :
            unique[i].spotId = id /\ unique[i].mode # <<>> /\ unique[i].entity # <<>>)
           => AddsToRows(id) = 1


Triple(x) == <<x.mode, x.band, x.entity>>

\* the row of `rows` for one (mode, band, entity) exists, is the only one, and
\* counts the spots of that key and their distinct activators, references and
\* (activator, reference) pairs
RowCounts(spots, rows, key) ==
  LET members == {i \in 1..Len(spots) : Triple(spots[i]) = key}
      found == {j \in 1..Len(rows) : Triple(rows[j]) = key}
  IN /\ Cardinality(found) = 1
     /\ \A j \in found :
          /\ rows[j].spot_count = Cardinality(members)
          /\ rows[j].unique_activators = Cardinality({spots[i].activator : i \in members})
          /\ rows[j].unique_parks = Cardinality({spots[i].reference : i \in members})
          /\ rows[j].activation_count =
               Cardinality({<<spots[i].activator, spots[i].reference>> : i \in members})

\* C11: aggregateSpotsToHourly emits, for each (mode, band, entity) present in its
\* input, one row whose spot_count is the number of input spots of that key and
\* whose unique_activators, unique_parks and activation_count are the numbers of
\* distinct activators, references and (activator, reference) pairs among them;
\* an empty input gives no rows.
C11_RowPerKey ==
  alg.pc = "done" =>
    /\ \A i \in 1..Len(alg.spots) : RowCounts(alg.spots, alg.whole, Triple(alg.spots[i]))
    /\ alg.spots = <<>> => alg.whole = <<>>

\* a spot whose mode and entity are not empty and whose key has no '|'
Plain(x) ==
  /\ x.mode # <<>> /\ x.entity # <<>>
  /\ ~HasBar(x.mode) /\ ~HasBar(x.band) /\ ~HasBar(x.entity)

\* the same for inputs of plain spots only, where it holds; the rows are then
\* exactly those of the keys of the input
RowPerKeyOfPlainSpots ==
  (alg.pc = "done" /\ \A i \in 1..Len(alg.spots) : Plain(alg.spots[i])) =>
    /\ \A i \in 1..Len(alg.spots) : RowCounts(alg.spots, alg.whole, Triple(alg.spots[i]))
    /\ \A j \in 1..Len(alg.whole) :
         \E i \in 1..Len(alg.spots) : Triple(alg.spots[i]) = Triple(alg.whole[j])

\* two plain spots of one key, of one activator at one park: spot_count 2, the
\* three counts 1
SameActivatorSamePark ==
  (alg.pc = "done" /\ Len(alg.spots) = 2
     /\ Plain(alg.spots[1]) /\ Triple(alg.spots[1]) = Triple(alg.spots[2])
     /\ alg.spots[1].activator = alg.spots[2].activator
     /\ alg.spots[1].reference = alg.spots[2].reference) =>
    /\ Len(alg.whole) = 1
    /\ alg.whole[1].spot_count = 2
    /\ alg.whole[1].unique_activators = 1
    /\ alg.whole[1].unique_parks = 1
    /\ alg.whole[1].activation_count = 1


\* C12: a job whose listing fails returns LIST_ERROR, a job whose rollup put fails
\* returns STORAGE_ERROR, and either has returned without any write: it has put
\* no object (no sidecar, no manifest.json), and the failing step leaves the
\* store as it was.
C12_ListOrStoreErrorAborts ==
  /\ [](/\ "list" \in run.errs =>
             run.pc = "done" /\ run.result = "LIST_ERROR" /\ run.puts = <<>>
        /\ "store" \in run.errs =>
             run.pc = "done" /\ run.result = "STORAGE_ERROR" /\ run.puts = <<>>
        /\ run.result \in {"LIST_ERROR", "STORAGE_ERROR"} =>
             run.errs \cap {"list", "store"} # {})
  /\ [][(run' # run /\ run'.errs \cap {"list", "store"} # {})
          => store' = store /\ run'.pc = "done"]_vars

\* a daily job has returned STORAGE_ERROR: its hourly inputs were read, nothing
\* was written for the day
C12_Witness ==
  /\ run.pc = "done"
  /\ run.result = "STORAGE_ERROR"
  /\ run.level = "daily"
  /\ run.fileKeys # <<>>
  /\ \A k \in DOMAIN store : k # ManifestKey => k.tier # "daily"

\* C13: a job whose put of the sidecar meta object failed has returned
\* STORAGE_ERROR and has not put manifest.json.
C13_MetaErrorAborts ==
  ("meta" \in run.errs /\ run.pc = "done") =>
    /\ run.result = "STORAGE_ERROR"
    /\ \A i \in 1..Len(run.puts) : run.puts[i] # ManifestKey

\* the rows a job of the level and bucket of the current run computes from the
\* listed inputs whose read did not fail, as if only those had been listed
RowsOfInputsRead ==
  LET good == SelectSeq(run.fileKeys, LAMBDA k : k \notin run.failed)
  IN ComputeSummary(run.level, run.target, good,
                    [i \in 1..Len(good) |-> store[good[i]]]).aggregates

\* C14: a job in which the read of an input failed, and no other store call, has
\* completed with ok and has published the rollup of the inputs that were read:
\* the failed input adds nothing, and every listed input object is as it was.
C14_ReadErrorSkipsInput ==
  (run.pc = "done" /\ run.errs = {"read"}) =>
    /\ run.result = "ok"
    /\ run.storedPath \in DOMAIN store
    /\ store[run.storedPath] = RowsOfInputsRead
    /\ \A i \in 1..Len(run.fileKeys) :
         /\ run.fileKeys[i] \in DOMAIN store
         /\ store[run.fileKeys[i]] = firstBody[run.fileKeys[i]]

\* a job has completed after the read of the first of two inputs failed, and its
\* rollup has rows
C14_Witness ==
  /\ run.pc = "done"
  /\ run.errs = {"read"}
  /\ Len(run.fileKeys) = 2
  /\ run.failed = {run.fileKeys[1]}
  /\ run.storedPath \in DOMAIN store
  /\ Len(store[run.storedPath]) > 0

\* the body of manifest.json, or that there is none
ManifestNow ==
  IF ManifestKey \in DOMAIN store THEN store[ManifestKey] ELSE [kind |-> "absent"]

\* a job whose manifest update failed after its rollup was written has returned
ManifestUpdateFailed == run.pc = "done" /\ "manifest" \in run.errs

\* a job has returned with none of its puts failed, for a bucket of which an
\* earlier run failed to update the manifest
RelinkingRun ==
  /\ run.pc = "done"
  /\ run.storedPath # NoKey
  /\ run.errs \cap {"store", "meta", "manifest"} = {}
  /\ <<run.level, run.target>> \in run.unlinked

ManifestFailureKeepsRollup ==
  ManifestUpdateFailed =>
    /\ run.result = "ok"
    /\ run.storedPath \in DOMAIN store
    /\ store[run.storedPath] = run.summary.aggregates
    /\ ManifestNow = run.manifestBefore

\* C15 as stated: a job whose manifest update fails after the rollup was written
\* returns ok, the rollup object is in the store and manifest.json is as it was
\* at the start of the job; a later run of the same bucket whose writes succeed
\* leaves the manifest with an entry of the bucket pointing to the rollup it stored.
C15_ManifestFailureRelinkedByRerun ==
  /\ ManifestFailureKeepsRollup
  /\ RelinkingRun => RunEntryPaths = <<run.storedPath>>

\* C15, amended: as above, but the later run leaves the manifest with no entry of
\* the bucket when the level's list is filled to the cap with entries of later
\* buckets.
C15_ManifestFailureRelinkedWithinCap ==
  /\ ManifestFailureKeepsRollup
  /\ RelinkingRun =>
       \/ RunEntryPaths = <<run.storedPath>>
       \/ /\ RunEntryPaths = <<>>
          /\ Len(StoredLists[run.level]) = MaxEntries(run.level)
          /\ \A i \in 1..Len(StoredLists[run.level]) :
               localeCompare(StoredLists[run.level][i].t,
                             Timestamp(run.level, run.target)) > 0

\* a run has linked the rollup of a bucket that an earlier run, whose manifest
\* update failed, had left without an entry
C15_Witness ==
  /\ RelinkingRun
  /\ run.entryBefore = <<>>
  /\ run.existed
  /\ Len(store[run.storedPath]) > 0
  /\ RunEntryPaths = <<run.storedPath>>

\* the list of the stored manifest.json has the entry that the call of the level stored
HasStoredEntry(level) ==
  \E i \in 1..Len(StoredLists[level]) :
    /\ StoredLists[level][i].t = upd[level].timeValue
    /\ StoredLists[level][i].path = upd[level].path

\* C16: when the updateManifest calls of two different levels have both stored,
\* however their gets and puts were interleaved, the manifest has the entry of
\* each of them.
C16_InterleavedLevelsKeepBoth ==
  \A l1, l2 \in Levels :
    (l1 # l2 /\ upd[l1].pc = "stored" /\ upd[l2].pc = "stored") =>
      HasStoredEntry(l1) /\ HasStoredEntry(l2)

\* the field name of the time value in an entry of a level
FieldOf(level) ==
  IF level = "hourly" THEN "hour" ELSE IF level = "daily" THEN "day" ELSE "month"

\* the list of a level in the body of manifest.json a call finds: none for an
\* absent or unparseable body, `hours` for hourly when there is no `hourly`
FoundList(level) ==
  IF ManifestKey \notin DOMAIN store \/ store[ManifestKey].kind # "json" THEN <<>>
  ELSE IF level = "hourly" /\ store[ManifestKey].hasHours /\ ~store[ManifestKey].hasHourly
    THEN store[ManifestKey].hours
  ELSE store[ManifestKey][level]

\* entry e under the field name of the level
Migrated(e, level) == [e EXCEPT !.tf = FieldOf(level)]

\* C19: a call that has loaded the manifest holds, for each level other than its
\* own, the found list (`hours` for hourly when `hourly` is absent, nothing when
\* the body is not valid JSON) with every entry's time value under the level's
\* field name, and for its own level only its new entry and such entries; a
\* manifest.json written by updateManifest has updated_at, hourly, daily and
\* monthly and no hours.
C19_LegacyManifestMigrated ==
  /\ \A level \in Levels :
       upd[level].pc = "loaded" =>
         /\ \A l \in Levels \ {level} :
              upd[level].manifest[l] =
                [i \in 1..Len(FoundList(l)) |-> Migrated(FoundList(l)[i], l)]
         /\ \A i \in 1..Len(upd[level].manifest[level]) :
              LET e == upd[level].manifest[level][i]
              IN /\ e.tf = FieldOf(level)
                 /\ \/ e.t = upd[level].timeValue /\ e.path = upd[level].path
                    \/ \E j \in 1..Len(FoundList(level)) :
                         e = Migrated(FoundList(level)[j], level)
         /\ \A j \in 1..Len(FoundList(level)) :
              \/ FoundList(level)[j].t = upd[level].timeValue
              \/ \E i \in 1..Len(upd[level].manifest[level]) :
                   upd[level].manifest[level][i] = Migrated(FoundList(level)[j], level)
              \/ Len(upd[level].manifest[level]) = ManifestCap
  /\ ManifestKey \in DOMAIN firstBody =>
       /\ store[ManifestKey].kind = "json"
       /\ store[ManifestKey].hasUpdatedAt
       /\ store[ManifestKey].hasHourly
       /\ store[ManifestKey].hasDaily
       /\ store[ManifestKey].hasMonthly
       /\ ~store[ManifestKey].hasHours

\* a daily call has loaded a manifest that had a `hours` list of `timestamp`
\* entries and no `hourly`
C19_Witness ==
  /\ upd["daily"].pc = "loaded"
  /\ ManifestKey \in DOMAIN store
  /\ store[ManifestKey].kind = "json"
  /\ store[ManifestKey].hasHours
  /\ ~store[ManifestKey].hasHourly
  /\ Len(store[ManifestKey].hours) = 1
  /\ store[ManifestKey].hours[1].tf = "timestamp"
  /\ Len(upd["daily"].manifest.hourly) = 1
  /\ upd["daily"].manifest.hourly[1].tf = "hour"
  /\ upd["daily"].manifest.hourly[1].t = store[ManifestKey].hours[1].t

\* the hour, the day and the month before a time, by the calendar
PrevHour(now) ==
  IF now.h > 0 THEN [now EXCEPT !.h = now.h - 1]
  ELSE IF now.d > 1 THEN [now EXCEPT !.d = now.d - 1, !.h = 23]
  ELSE [now EXCEPT !.mo = now.mo - 1, !.d = DaysInMonth(now.mo - 1), !.h = 23]

PrevDay(now) ==
  IF now.d > 1 THEN [now EXCEPT !.d = now.d - 1]
  ELSE [now EXCEPT !.mo = now.mo - 1, !.d = DaysInMonth(now.mo - 1)]

PrevMonth(now) == [now EXCEPT !.mo = now.mo - 1]

Invoked == sched.pc = "on" /\ sched.last.kind = "aggregate"

RowsNow(level, date) ==
  LET fileKeys == ListInputs(store, level, date)
  IN ComputeSummary(level, date, fileKeys,
                    [i \in 1..Len(fileKeys) |-> store[fileKeys[i]]]).aggregates

\* a bucket that has inputs in the store has its rollup of them in the store
RollupStored(level, date) ==
  ListInputs(store, level, date) # <<>> =>
    HashedKey(level, date, RowsNow(level, date)) \in DOMAIN store

\* the daily, the monthly job is the next invocation
DailyDue == sched.pc = "on" /\ CronMatches(DailyCron, sched.now)
MonthlyDue == sched.pc = "on" /\ CronMatches(MonthlyCron, sched.now)

\* C18: with every invocation made at its time and finished before the next,
\* when the daily job for day D is about to list, every hour of D that has raw
\* objects, hour 23 included, has its hourly rollup in the store, and when the
\* monthly job for month M is about to list, every day of M that has hourly
\* rollups, the last included, has its daily rollup in the store; a job that
\* has run has stored the rollup of the inputs it found, or nothing when it
\* found none.
C18_ChildrenStoredBeforeParentLists ==
  /\ DailyDue =>
       \A hh \in 0..23 : RollupStored("hourly", [PrevDay(sched.now) EXCEPT !.h = hh])
  /\ MonthlyDue =>
       \A dd \in 1..DaysInMonth(sched.now.mo - 1) :
         RollupStored("daily", [PrevMonth(sched.now) EXCEPT !.d = dd])
  /\ Invoked =>
       IF sched.last.fileKeys = <<>> THEN sched.last.storedPath = NoKey
       ELSE /\ sched.last.storedPath \in DOMAIN store
            /\ store[sched.last.storedPath] = RowsNow(sched.last.level, sched.last.date)

\* the monthly job is about to list on the 1st: the last day of the month before
\* has the hourly rollups of its hours 22 and 23, and its daily rollup
C18_Witness ==
  /\ MonthlyDue
  /\ listRawFiles(store, formatHourPath([PrevDay(sched.now) EXCEPT !.h = 23])) # <<>>
  /\ Len(listHourlyFiles(store, formatDayPath(PrevDay(sched.now)))) = 2
  /\ Len(listDailyFiles(store, formatMonthPath(PrevMonth(sched.now)))) = 1

\* the step is a tick of the collector
CollectorTicks == sched.pc = "on" /\ sched' # sched /\ sched'.last.kind = "collect"

\* C20: a collector tick that ends in ok adds exactly one object to the store
\* and changes no other: its key is raw/<year/month/day/hour of the tick>/
\* spots-<timestamp>.ndjson, among the keys aggregateHour lists for that hour; a
\* tick that ends in FETCH_ERROR, PARSE_ERROR or STORAGE_ERROR leaves the store
\* as it was; either way the next invocation is that of a later minute.
C20_TickWritesOneRawObjectOrNothing ==
  [][CollectorTicks =>
       /\ sched'.last.at = sched.now
       /\ sched'.now # sched.now
       /\ sched'.ticks = sched.ticks + 1
       /\ IF sched'.last.result = "ok"
          THEN \E key \in DOMAIN store' :
                 /\ key \notin DOMAIN store
                 /\ DOMAIN store' = DOMAIN store \cup {key}
                 /\ \A k \in DOMAIN store : store'[k] = store[k]
                 /\ key.tier = "raw"
                 /\ key.ext = "ndjson"
                 /\ key.path = <<sched.now.mo, sched.now.d, sched.now.h, sched.now.mi>>
                 /\ \E i \in 1..Len(listRawFiles(store', formatHourPath(sched.now))) :
                      listRawFiles(store', formatHourPath(sched.now))[i] = key
          ELSE /\ sched'.last.result \in {"FETCH_ERROR", "PARSE_ERROR", "STORAGE_ERROR"}
               /\ store' = store]_vars

\* the tick of 23:45 on the last day of a year has written its object
C20_Witness ==
  /\ sched.pc = "on"
  /\ sched.last.kind = "collect"
  /\ sched.last.result = "ok"
  /\ sched.last.at = [mo |-> 12, d |-> 31, h |-> 23, mi |-> 45]
  /\ sched.last.key \in DOMAIN store
  /\ sched.last.key.path = <<12, 31, 23, 45>>

\* the rows of the band table: the limits in kHz and the band
BandRows ==
  {<<1800, 2000, B160>>, <<3500, 4000, B80>>, <<5300, 5400, B60>>, <<7000, 7300, B40>>,
   <<10100, 10150, B30>>, <<14000, 14350, B20>>, <<18068, 18168, B17>>,
   <<21000, 21450, B15>>, <<24890, 24990, B12>>, <<28000, 29700, B10>>,
   <<50000, 54000, B6>>, <<144000, 148000, B2>>, <<420000, 450000, B70cm>>}

Normalized == call.pc = "normalized"

\* the number the frequency string of the spot stands for, 0 when it is none
FrequencyOf(spot) == IF spot.frequency.ok THEN spot.frequency.khz ELSE 0

\* C21: the band of a normalised spot is the band of the table row whose closed
\* range contains its frequency in whole kHz, both limits included (14000 and
\* 14350 are 20m, 13999 is other), and other when no row contains it, as for 0,
\* for an unparseable frequency and for a negative one.
C21_BandOfClosedRange ==
  Normalized =>
    LET f == FrequencyOf(call.spot)
        rows == {r \in BandRows : r[1] <= f /\ f <= r[2]}
    IN /\ \A r \in rows : call.out.band = r[3]
       /\ rows = {} => call.out.band = BOther
       /\ f \in {14000, 14350} => call.out.band = B20
       /\ (f = 13999 \/ f <= 0) => call.out.band = BOther

\* a spot at the upper limit of the 20m range has been normalised to 20m
C21_Witness ==
  /\ Normalized
  /\ call.spot.frequency = Khz(14350)
  /\ call.out.band = B20

\* C22: the entity of a normalised spot is the part of its reference before the
\* first '-' when that part is not empty, and "unknown" otherwise.
C22_EntityOrUnknown ==
  Normalized =>
    LET reference == call.spot.reference
        dashes == {i \in 1..Len(reference) : reference[i] = "-"}
        first == IF dashes = {} THEN Len(reference) + 1
                 ELSE CHOOSE i \in dashes : \A j \in dashes : i <= j
        prefix == SubSeq(reference, 1, first - 1)
    IN call.out.entity =
         IF prefix # <<>> THEN prefix ELSE <<"u", "n", "k", "n", "o", "w", "n">>

Summarized == call.pc = "summarized" /\ call.wrote

AllTimeStored == store[SummaryKey("all_time")]

\* the spots of an hour bucket: the distinct spot ids in the raw objects of the hour
HourSpots(date) ==
  LET fileKeys == listRawFiles(store, formatHourPath(date))
  IN Len(UniqueSpots([i \in 1..Len(fileKeys) |-> store[fileKeys[i]]]))

RECURSIVE SpotsOfHours(_)
SpotsOfHours(dates) ==
  IF dates = {} THEN 0
  ELSE LET date == CHOOSE d \in dates : TRUE
       IN HourSpots(date) + SpotsOfHours(dates \ {date})

\* C23: after any aggregation runs and a summary run, total_spots of
\* all_time.json counts the spots of no hour bucket more than once: it is at
\* most the number of spots of all hour buckets together.
C23_AllTimeCountsHourOnce ==
  Summarized => AllTimeStored.total_spots <= SpotsOfHours(Dates)

\* the bucket timestamps of the rollups merged into the all-time summary
MergedTimes ==
  {f.t : f \in Range(call.files.monthly) \cup Range(call.files.daily)
                 \cup Range(call.files.hourly)}

\* C24: data_since of all_time.json is the earliest bucket timestamp among the
\* monthly, daily and hourly rollups merged into the all-time summary.
C24_DataSinceIsEarliestMerged ==
  (Summarized /\ MergedTimes # {})
    => /\ AllTimeStored.data_since \in MergedTimes
       /\ \A t \in MergedTimes : localeCompare(AllTimeStored.data_since, t) <= 0

Filtered == call.pc = "filtered"

\* every entry the manifest holds, in any of its lists
ManifestEntries(manifest) ==
  Range(manifest.hourly.entries) \cup Range(manifest.hours.entries)
    \cup Range(manifest.daily.entries)

\* C25: the level is hourly for 1h and 24h, and for 7d and 30d daily exactly
\* when the manifest has a daily entry; every URL returned is the base URL, a
\* slash and the path of an entry of the manifest (an entry of the legacy
\* hours list when there is no hourly list); a manifest without entries gives
\* no URL.
C25_LevelAndUrlsOfManifest ==
  Filtered =>
    /\ call.timeRange \in {"1h", "24h"} => call.result.rollupLevel = "hourly"
    /\ call.timeRange \in {"7d", "30d"} =>
         call.result.rollupLevel =
           (IF call.manifest.daily.present /\ Len(call.manifest.daily.entries) >= 1
            THEN "daily" ELSE "hourly")
    /\ \A i \in 1..Len(call.result.urls) :
         \E e \in ManifestEntries(call.manifest) :
           call.result.urls[i] = call.baseUrl \o <<"/">> \o e.path
    /\ (~call.manifest.hourly.present /\ call.manifest.hours.present
          /\ call.timeRange = "24h")
         => \A i \in 1..Len(call.manifest.hours.entries) :
              (call.manifest.hours.entries[i].hour + 1) * 60 > call.now - 24 * 60
                => \E j \in 1..Len(call.result.urls) :
                     call.result.urls[j]
                       = call.baseUrl \o <<"/">> \o call.manifest.hours.entries[i].path
    /\ ManifestEntries(call.manifest) = {} => call.result.urls = <<>>

\* a 7d call on a manifest with daily and legacy hours entries that returned
\* a daily URL followed by an hourly URL of the present day
C25_Witness ==
  /\ Filtered
  /\ call.timeRange = "7d"
  /\ call.result.rollupLevel = "daily"
  /\ ~call.manifest.hourly.present
  /\ call.manifest.hours.present
  /\ Len(call.manifest.daily.entries) = 1
  /\ Len(call.result.urls) = 2
  /\ call.result.urls[2] = call.baseUrl \o <<"/">> \o call.manifest.hours.entries[1].path

\* C26: a run whose listing of the target bucket succeeds and returns no
\* object ends at once with a success summary whose totals and
\* files_processed are 0 and that has no rows, and it puts nothing: the store,
\* manifest.json included, is the same after the run as before it.
C26_EmptyListingWritesNothing ==
  [][(/\ runs' = runs + 1
      /\ "list" \notin run'.errs
      /\ ListInputs(store, run'.level, run'.target) = <<>>)
       => /\ run'.pc = "done"
          /\ run'.result = "ok"
          /\ run'.summary.total_spots = 0
          /\ run'.summary.total_activations = 0
          /\ run'.summary.total_unique_activators = 0
          /\ run'.summary.total_unique_parks = 0
          /\ run'.summary.files_processed = 0
          /\ run'.summary.aggregates = <<>>
          /\ run'.summary.tval = Timestamp(run'.level, run'.target)
          /\ run'.puts = <<>>
          /\ store' = store]_vars

\* an hourly run that found no raw object in its hour while another hour has
\* been collected and aggregated
C26_Witness ==
  /\ run.pc = "done"
  /\ run.result = "ok"
  /\ run.level = "hourly"
  /\ run.fileKeys = <<>>
  /\ run.errs = {}
  /\ captures > 0
  /\ ManifestKey \in DOMAIN store

\* the spot_count a rollup holds for the key (mode, band, entity) of a row
RECURSIVE CountOfKey(_, _)
CountOfKey(rows, row) ==
  IF rows = <<>> THEN 0
  ELSE (IF Head(rows).mode = row.mode /\ Head(rows).band = row.band
            /\ Head(rows).entity = row.entity
        THEN Head(rows).spot_count ELSE 0)
       + CountOfKey(Tail(rows), row)

\* the child buckets of the run's bucket that earlier runs stored a rollup for;
\* run.last gives for each the key of the rollup stored last, the one its
\* manifest entry points to
ChildBuckets ==
  {k \in DOMAIN run.last :
     \/ run.level = "daily" /\ k[1] = "hourly"
          /\ formatDayPath(k[2]) = formatDayPath(run.target)
     \/ run.level = "monthly" /\ k[1] = "daily"
          /\ formatMonthPath(k[2]) = formatMonthPath(run.target)}

RECURSIVE ReferencedCount(_, _)
ReferencedCount(buckets, row) ==
  IF buckets = {} THEN 0
  ELSE LET k == CHOOSE b \in buckets : TRUE
       IN CountOfKey(store[run.last[k]], row) + ReferencedCount(buckets \ {k}, row)

\* C27: a daily (monthly) rollup counts each hour (day) once: with no store
\* call failing, the spot_count of each of its rows is the sum, over the child
\* buckets, of the spot_count for that key in the rollup the manifest
\* references for the child bucket, also after a child bucket was aggregated
\* twice with different content.
C27_ParentCountsChildOnce ==
  (run.pc = "done" /\ run.result = "ok" /\ faults = 0 /\ run.level \in {"daily", "monthly"})
    => \A i \in 1..Len(run.summary.aggregates) :
         run.summary.aggregates[i].spot_count
           = ReferencedCount(ChildBuckets, run.summary.aggregates[i])

RECURSIVE SpotCountSum(_)
SpotCountSum(rows) ==
  IF rows = <<>> THEN 0 ELSE Head(rows).spot_count + SpotCountSum(Tail(rows))

\* a run that returned success after its rollup object was put
Published == run.pc = "done" /\ run.result = "ok" /\ run.storedPath # NoKey

\* C28: in every successful run the summary's total_spots equals the sum of
\* spot_count over the rows of the rollup object the run published.
C28_TotalSpotsIsSumOfRows ==
  Published => run.summary.total_spots = SpotCountSum(store[run.storedPath])

\* the list of a level in the stored manifest object: of the hourly level the
\* `hourly` list, or the `hours` list of the earliest format
StoredList(st, level) ==
  IF ManifestKey \notin DOMAIN st \/ st[ManifestKey].kind # "json" THEN <<>>
  ELSE LET body == st[ManifestKey]
       IN IF level = "hourly"
          THEN (IF body.hasHourly THEN body.hourly
                ELSE IF body.hasHours THEN body.hours ELSE <<>>)
          ELSE IF level = "daily" THEN (IF body.hasDaily THEN body.daily ELSE <<>>)
          ELSE (IF body.hasMonthly THEN body.monthly ELSE <<>>)

\* timestamp, path and totals of the entries, whatever the name of the time field
EntryValues(entries) ==
  [i \in 1..Len(entries) |->
     [t |-> entries[i].t, path |-> entries[i].path,
      total_spots |-> entries[i].total_spots,
      total_activations |-> entries[i].total_activations]]

UpdateReturnsOk(level) ==
  /\ upd[level].pc = "loaded"
  /\ upd'[level].pc = "idle"
  /\ ManifestKey \in DOMAIN store'
  /\ store'[ManifestKey] = StoredManifest(upd[level].manifest)

\* the stored list of the level has an entry for the timestamp and path of the call
HasEntryOfCall(st, level) ==
  \E i \in 1..Len(StoredList(st, level)) :
    /\ StoredList(st, level)[i].t = upd[level].timeValue
    /\ StoredList(st, level)[i].path = upd[level].path

\* the stored list of the level is filled to the cap with entries later than
\* the timestamp of the call
FilledWithLater(st, level) ==
  /\ Len(StoredList(st, level)) = ManifestCap
  /\ \A i \in 1..ManifestCap :
       localeCompare(StoredList(st, level)[i].t, upd[level].timeValue) > 0

\* C30: after updateManifest(level, t, path, ...) returns success the stored
\* list of the level contains an entry for t with the given path, for every t
\* and every prior manifest.
C30_UpdatedEntryStored ==
  [][\A level \in Levels :
       UpdateReturnsOk(level) => HasEntryOfCall(store', level)]_vars

\* C30 as amended: the entry is in the stored list unless the list is filled to
\* the cap with entries of later timestamps.
C30_UpdatedEntryStoredWithinCap ==
  [][\A level \in Levels :
       UpdateReturnsOk(level)
         => (HasEntryOfCall(store', level) \/ FilledWithLater(store', level))]_vars

\* updateManifest calls have filled the hourly list to the cap; its first entry
\* carries a path that only a call can have given it
C30_Witness ==
  /\ \A level \in Levels : upd[level].pc = "idle"
  /\ ManifestKey \in DOMAIN store
  /\ store[ManifestKey].kind = "json"
  /\ store[ManifestKey].hasHourly
  /\ Len(store[ManifestKey].hourly) = ManifestCap
  /\ store[ManifestKey].hourly[1].tf = "hour"
  /\ store[ManifestKey].hourly[1].path # LegacyEntry(<<1>>).path
  /\ store[ManifestKey].hourly[1].t = <<1, 1, 1>>

=============================================================================
